---- MODULE Spec2Model ----
(***************************************************************************)
(* The artifact store of the context-keeper plugin: save_summary /         *)
(* save_memory with update_index on the write side, load_latest_summary /  *)
(* load_latest_memory on the read side.  One behaviour follows one store   *)
(* directory of one project: .claude/summaries or .claude/memories.  The   *)
(* two stores run the same code but for the artifact file (summary.md is   *)
(* the text, memory.json wraps it in JSON) and the names of the index keys *)
(* ("summaries" / "memories", "summary_path" / "memory_path"); the names  *)
(* used here are those of the summaries store.  Of an index entry and of   *)
(* metadata.json only the fields that identify the artifact and its time   *)
(* of creation are kept (trigger, project and message_count are copied     *)
(* from the caller's metadata unchanged).                                  *)
(***************************************************************************)
EXTENDS Integers, Sequences, FiniteSets, TLC

VARIABLES
  kind,      \* "summaries" or "memories": which of the two parallel stores
  root,      \* the store directory (.claude/<kind>) exists
  dirs,      \* the timestamp directories <<session_id, timestamp>> that exist
  files,     \* artifact file (summary.md / memory.json) of a directory
  meta,      \* metadata.json of a directory
  latest,    \* per session: target name of the "latest" symlink, or NoLink
  index,     \* index.json
  clock,     \* wall clock, in ticks of 1/TicksPerSecond second
  inflight,  \* per process: the save it is in the middle of, or Idle
  ret,       \* the last event: what the last finished invocation returned and logged
  history,   \* the save calls that have ended, oldest first (history variable)
  transcript \* the session's transcript file (JSONL), as the host has written it

vars == <<kind, root, dirs, files, meta, latest, index, clock, inflight, ret, history, transcript>>

----------------------------------------------------------------------------
(* Bounds and inputs *)

Sessions == {"A", "B"}
NoSession == ""
NoLink == -1

\* Texts are sequences of characters; CR and LF stand for "\r" and "\n".
Bodies == { <<"a">>, <<"b", "CR", "LF", "c">> }

Kinds == {"summaries", "memories"}
JqModes == {"answers", "unavailable"}

Procs == {1, 2}

MaxSaves == 3
MaxEnvSaves == 2
MaxStepSaves == 2
PriorSaves == 98
TicksPerSecond == 2
Delays == {1, TicksPerSecond}

IndexLimit == 100

----------------------------------------------------------------------------
(* Values *)

NoneText == <<"None">>
NoneMeta == [form |-> "none"]
EmptyMeta == [form |-> "empty"]

\* absent key, None or "": what Python's "or" and "if ts:" take as no value
NoTs == 0

\* no transcript file at the path the hook input names
NoTranscript == [exists |-> FALSE, lines |-> <<>>]

Min(a, b) == IF a < b THEN a ELSE b
Max(S) == CHOOSE x \in S : \A y \in S : y <= x
Min0(S) == CHOOSE x \in S : \A y \in S : x <= y

\* datetime.now().strftime("%Y%m%d_%H%M%S"): the clock cut to whole seconds
strftime(t) == t \div TicksPerSecond

\* Path.write_text on POSIX: "\n" is written as os.linesep = "\n", every other
\* character as itself.
write_text(text) == text

\* Path.read_text: universal newlines, "\r\n" and a lone "\r" are read as "\n".
RECURSIVE read_text(_)
read_text(data) ==
  IF data = <<>> THEN <<>>
  ELSE IF Head(data) = "CR"
       THEN IF Len(data) >= 2 /\ data[2] = "LF"
            THEN <<"LF">> \o read_text(SubSeq(data, 3, Len(data)))
            ELSE <<"LF">> \o read_text(Tail(data))
       ELSE <<Head(data)>> \o read_text(Tail(data))

\* What save writes as the artifact file: summary.md is the text itself,
\* memory.json is json.dumps of {content, timestamp, session_id}.
artifact_file(k, session_id, timestamp, body) ==
  IF k = "summaries"
  THEN <<"text", write_text(body)>>
  ELSE <<"json", body, timestamp, session_id>>

\* What load reads from the artifact file: read_text of summary.md, or
\* json.loads(memory.json).get('content', '').
read_artifact(k, f) ==
  IF k = "summaries" THEN read_text(f[2]) ELSE f[2]

Store == [root |-> root, dirs |-> dirs, files |-> files, meta |-> meta,
          latest |-> latest, index |-> index]

MissingIndex == [kind |-> "missing", summaries |-> <<>>, last_session |-> NoSession]
NewIndex == [kind |-> "object", summaries |-> <<>>, last_session |-> NoSession]

EmptyStore ==
  [root |-> FALSE, dirs |-> {}, files |-> <<>>, meta |-> <<>>,
   latest |-> [s \in Sessions |-> NoLink], index |-> MissingIndex]

----------------------------------------------------------------------------
(* save_summary / save_memory, step by step *)

\* session_dir.mkdir(parents=True, exist_ok=True)
mkdir_session_dir(st, session_id, timestamp) ==
  [st EXCEPT !.root = TRUE, !.dirs = @ \union {<<session_id, timestamp>>}]

\* summary_path.write_text(summary) / memory_path.write_text(json.dumps(...))
write_artifact(st, k, session_id, timestamp, body) ==
  [st EXCEPT !.files = (<<session_id, timestamp>> :> artifact_file(k, session_id, timestamp, body)) @@ @]

\* metadata['summary_timestamp'] = timestamp; metadata_path.write_text(...)
\* (event_end is in the metadata of save_memory.py's main alone)
write_metadata(st, session_id, timestamp, metadata) ==
  [st EXCEPT !.meta = (<<session_id, timestamp>> :>
                         [form |-> "metadata",
                          session_id |-> metadata.session_id,
                          timestamp |-> metadata.timestamp,
                          event_end |-> metadata.event_end,
                          summary_timestamp |-> timestamp]) @@ @]

\* a slip of the path: the links of all sessions are removed
unlink_every_latest(st, session_id) ==
  [st EXCEPT !.latest = [s \in Sessions |-> NoLink]]

\* if latest_link.is_symlink(): latest_link.unlink()
unlink_latest(st, session_id) ==
  [st EXCEPT !.latest[session_id] = NoLink]

\* try: latest_link.symlink_to(timestamp) except OSError: log_error(...)
symlink_latest(st, session_id, timestamp, link_ok) ==
  IF link_ok THEN [st EXCEPT !.latest[session_id] = timestamp] ELSE st

\* the entry update_index builds
index_entry(session_id, timestamp, metadata) ==
  [form |-> "entry",
   session_id |-> session_id,
   timestamp |-> timestamp,
   created_at |-> metadata.timestamp,
   summary_path |-> <<session_id, timestamp>>]

\* json.loads(index_path.read_text()) inside update_index: a missing file and
\* an unparsable one give the fresh index; any other valid JSON is taken as is.
index_for_update(idx) ==
  IF idx.kind \in {"missing", "unparsable"} THEN NewIndex ELSE idx

\* index["summaries"].insert(0, entry) raises unless the value is a dict
\* whose "summaries" is a list.
update_index_raises(idx) ==
  index_for_update(idx).kind # "object"

\* a slip of the slice: the last 100 instead of the first 100
truncate_keeps_oldest(entries) ==
  SubSeq(entries, Len(entries) - Min(Len(entries), IndexLimit) + 1, Len(entries))

\* index["summaries"][:100]
truncate(entries) == SubSeq(entries, 1, Min(Len(entries), IndexLimit))

\* index["summaries"].insert(0, entry); index["last_session"] = session_id;
\* index["summaries"] = index["summaries"][:100]
new_index(idx, session_id, timestamp, metadata) ==
  [kind |-> "object",
   summaries |-> truncate(<<index_entry(session_id, timestamp, metadata)>> \o idx.summaries),
   last_session |-> session_id]

\* read the index, put the entry in, write the file
update_index(st, session_id, timestamp, metadata) ==
  [st EXCEPT !.root = TRUE,
             !.index = new_index(index_for_update(st.index), session_id, timestamp, metadata)]

\* the whole of save_summary, up to update_index
save_artifact(st, k, session_id, timestamp, body, metadata, link_ok) ==
  symlink_latest(
    unlink_latest(
      write_metadata(
        write_artifact(
          mkdir_session_dir(st, session_id, timestamp),
          k, session_id, timestamp, body),
        session_id, timestamp, metadata),
      session_id),
    session_id, timestamp, link_ok)

\* the OSError of symlink_to not caught: update_index is never reached
save_summary_link_fatal(st, k, session_id, timestamp, body, metadata, link_ok) ==
  LET written == save_artifact(st, k, session_id, timestamp, body, metadata, link_ok)
  IN IF update_index_raises(written.index) \/ ~link_ok
     THEN written
     ELSE update_index(written, session_id, timestamp, metadata)

\* save_summary / save_memory: the store afterwards
save_summary(st, k, session_id, timestamp, body, metadata, link_ok) ==
  LET written == save_artifact(st, k, session_id, timestamp, body, metadata, link_ok)
  IN IF update_index_raises(written.index)
     THEN written
     ELSE update_index(written, session_id, timestamp, metadata)

----------------------------------------------------------------------------
(* load_latest_summary / load_latest_memory *)

NotFound == [status |-> "none", content |-> NoneText, metadata |-> NoneMeta]
Raised == [status |-> "raised", content |-> NoneText, metadata |-> NoneMeta]
Found(content, metadata) == [status |-> "found", content |-> content, metadata |-> metadata]

\* latest_link.exists(): follows the link, so the target must exist
latest_exists(st, session_id) ==
  /\ st.latest[session_id] # NoLink
  /\ <<session_id, st.latest[session_id]>> \in st.dirs

session_dir_exists(st, session_id) ==
  \E d \in st.dirs : d[1] = session_id

\* jq -r '.summaries[0]': an entry, or nothing (null, an error, no jq)
jq_first(idx, jq) ==
  IF jq = "answers" /\ idx.kind = "object" /\ Len(idx.summaries) > 0
  THEN idx.summaries[1]
  ELSE NoneMeta

\* the artifact an index entry names
load_entry(st, k, entry) ==
  IF entry.summary_path \in DOMAIN st.files
  THEN Found(read_artifact(k, st.files[entry.summary_path]), entry)
  ELSE NotFound

\* the index fallback of load_latest
load_from_index(st, k, jq) ==
  IF st.index.kind = "missing" THEN NotFound
  ELSE IF jq_first(st.index, jq) # NoneMeta THEN load_entry(st, k, jq_first(st.index, jq))
  ELSE IF st.index.kind = "unparsable" THEN NotFound
  ELSE IF st.index.kind = "nonobject" THEN Raised
  ELSE IF st.index.kind = "nokey" \/ Len(st.index.summaries) = 0 THEN NotFound
  ELSE load_entry(st, k, st.index.summaries[1])

\* the session branch left out: always the index
load_latest_ignores_session(st, k, session_id, jq) ==
  IF ~st.root THEN NotFound ELSE load_from_index(st, k, jq)

load_latest(st, k, session_id, jq) ==
  IF ~st.root THEN NotFound
  ELSE IF /\ session_id # NoSession
          /\ session_dir_exists(st, session_id)
          /\ latest_exists(st, session_id)
          /\ <<session_id, st.latest[session_id]>> \in DOMAIN st.files
       THEN LET target == <<session_id, st.latest[session_id]>>
            IN Found(read_artifact(k, st.files[target]),
                     IF target \in DOMAIN st.meta THEN st.meta[target] ELSE EmptyMeta)
       ELSE load_from_index(st, k, jq)

----------------------------------------------------------------------------
(* Invocations, each run to completion *)

NoRet == [op |-> "none"]
Idle == [pc |-> "idle"]

\* everything but the transcript: no store yet, nothing has run
InitStore ==
  /\ kind \in Kinds
  /\ root = EmptyStore.root
  /\ dirs = EmptyStore.dirs
  /\ files = EmptyStore.files
  /\ meta = EmptyStore.meta
  /\ latest = EmptyStore.latest
  /\ index = EmptyStore.index
  /\ clock = 0
  /\ inflight = [p \in Procs |-> Idle]
  /\ ret = NoRet
  /\ history = <<>>

Init ==
  /\ InitStore
  /\ transcript = NoTranscript

SetStore(st) ==
  /\ root' = st.root
  /\ dirs' = st.dirs
  /\ files' = st.files
  /\ meta' = st.meta
  /\ latest' = st.latest
  /\ index' = st.index

\* what a save call that has ended leaves in ret and in history
SaveEnded(session_id, timestamp, created_at, body, link_ok, status) ==
  /\ ret' = [op |-> "save", session_id |-> session_id, status |-> status,
             path |-> <<session_id, timestamp>>, body |-> body,
             link_error_logged |-> ~link_ok]
  /\ history' = Append(history, [session_id |-> session_id, timestamp |-> timestamp,
                                 created_at |-> created_at, body |-> body,
                                 link_ok |-> link_ok, status |-> status])

\* one call of save_summary / save_memory, delay ticks after the last one
Save(session_id, body, delay, link_ok) ==
  LET now == clock + delay
      timestamp == strftime(now)
      metadata == [session_id |-> session_id, timestamp |-> now, event_end |-> NoTs]
  IN /\ clock' = now
     /\ SetStore(save_summary(Store, kind, session_id, timestamp, body, metadata, link_ok))
     /\ SaveEnded(session_id, timestamp, now, body, link_ok,
                  IF update_index_raises(index) THEN "raised" ELSE "returned")
     /\ UNCHANGED <<transcript, kind, inflight>>

\* one call of load_latest_summary / load_latest_memory
Load(session_id, jq) ==
  /\ ret' = [op |-> "load", session_id |-> session_id, jq |-> jq,
             result |-> load_latest(Store, kind, session_id, jq)]
  /\ UNCHANGED <<transcript, kind, root, dirs, files, meta, latest, index, clock, inflight, history>>

SaveStep ==
  /\ Len(history) < MaxSaves
  /\ \E s \in Sessions, b \in Bodies, d \in Delays, ok \in BOOLEAN : Save(s, b, d, ok)

LoadStep == \E s \in Sessions \union {NoSession}, jq \in JqModes : Load(s, jq)

Next == SaveStep \/ LoadStep

Spec == Init /\ [][Next]_vars

----------------------------------------------------------------------------
(* A long run: PriorSaves saves, one per second, the sessions taking turns, *)
(* and then the saves of SaveStep.                                         *)

prior_session(i) == IF i % 2 = 1 THEN "A" ELSE "B"

PriorSave ==
  /\ Len(history) < PriorSaves
  /\ Save(prior_session(Len(history) + 1), <<"a">>, TicksPerSecond, TRUE)

LaterSave ==
  /\ Len(history) >= PriorSaves
  /\ Len(history) < PriorSaves + MaxSaves
  /\ \E s \in Sessions, b \in Bodies, d \in Delays, ok \in BOOLEAN : Save(s, b, d, ok)

NextLong == PriorSave \/ LaterSave

SpecLong == Init /\ [][NextLong]_vars

----------------------------------------------------------------------------
(* The store's environment: index.json edited, damaged or deleted by       *)
(* something other than save.                                              *)

\* an entry whose artifact file does not exist (no save has timestamp -2)
DanglingEntry ==
  [form |-> "entry", session_id |-> "A", timestamp |-> -2, created_at |-> -2,
   summary_path |-> <<"A", -2>>]

IndexStates ==
  { MissingIndex,                                                             \* no file
    [kind |-> "unparsable", summaries |-> <<>>, last_session |-> NoSession],  \* not JSON
    [kind |-> "nonobject", summaries |-> <<>>, last_session |-> NoSession],   \* [] , null, 5
    [kind |-> "nokey", summaries |-> <<>>, last_session |-> NoSession],       \* {}
    NewIndex,                                                                 \* empty list
    [kind |-> "object", summaries |-> <<DanglingEntry>>, last_session |-> "A"] }

TamperIndex(idx) ==
  /\ root
  /\ index # idx
  /\ index' = idx
  /\ ret' = [op |-> "tamper"]
  /\ UNCHANGED <<transcript, kind, root, dirs, files, meta, latest, clock, inflight, history>>

EnvSaveStep ==
  /\ Len(history) < MaxEnvSaves
  /\ \E s \in Sessions, b \in Bodies, d \in Delays, ok \in BOOLEAN : Save(s, b, d, ok)

TamperStep == \E idx \in IndexStates : TamperIndex(idx)

NextEnv == EnvSaveStep \/ LoadStep \/ TamperStep

SpecEnv == Init /\ [][NextEnv]_vars

----------------------------------------------------------------------------
(* Saves as separate processes, one file-system call at a time, with       *)
(* load_latest run by another process in between.                          *)

Started == Len(history) + Cardinality({p \in Procs : inflight[p].pc # "idle"})

\* timestamp = datetime.now()...; session_dir.mkdir(...)
StepBegin(p, session_id, body, delay, link_ok) ==
  LET now == clock + delay
      timestamp == strftime(now)
  IN /\ inflight[p].pc = "idle"
     /\ Started < MaxStepSaves
     /\ clock' = now
     /\ SetStore(mkdir_session_dir(Store, session_id, timestamp))
     /\ inflight' = [inflight EXCEPT ![p] =
                       [pc |-> "write_artifact", session_id |-> session_id,
                        timestamp |-> timestamp, created_at |-> now, body |-> body,
                        link_ok |-> link_ok, idx |-> MissingIndex]]
     /\ UNCHANGED <<transcript, kind, ret, history>>

Goto(p, pc) == inflight' = [inflight EXCEPT ![p].pc = pc]

StepWriteArtifact(p) ==
  LET c == inflight[p]
  IN /\ c.pc = "write_artifact"
     /\ SetStore(write_artifact(Store, kind, c.session_id, c.timestamp, c.body))
     /\ Goto(p, "write_metadata")
     /\ UNCHANGED <<transcript, kind, clock, ret, history>>

StepWriteMetadata(p) ==
  LET c == inflight[p]
  IN /\ c.pc = "write_metadata"
     /\ SetStore(write_metadata(Store, c.session_id, c.timestamp,
                                [session_id |-> c.session_id, timestamp |-> c.created_at,
                                 event_end |-> NoTs]))
     /\ Goto(p, "unlink")
     /\ UNCHANGED <<transcript, kind, clock, ret, history>>

StepUnlink(p) ==
  LET c == inflight[p]
  IN /\ c.pc = "unlink"
     /\ SetStore(unlink_latest(Store, c.session_id))
     /\ Goto(p, "symlink")
     /\ UNCHANGED <<transcript, kind, clock, ret, history>>

StepSymlink(p) ==
  LET c == inflight[p]
  IN /\ c.pc = "symlink"
     /\ SetStore(symlink_latest(Store, c.session_id, c.timestamp, c.link_ok))
     /\ Goto(p, "read_index")
     /\ UNCHANGED <<transcript, kind, clock, ret, history>>

\* index = json.loads(index_path.read_text())
StepReadIndex(p) ==
  LET c == inflight[p]
  IN /\ c.pc = "read_index"
     /\ inflight' = [inflight EXCEPT ![p].pc = "write_index", ![p].idx = index]
     /\ UNCHANGED <<transcript, kind, root, dirs, files, meta, latest, index, clock, ret, history>>

\* index_path.write_text(json.dumps(index)); return summary_path
StepWriteIndex(p) ==
  LET c == inflight[p]
      metadata == [session_id |-> c.session_id, timestamp |-> c.created_at,
                   event_end |-> NoTs]
      raises == update_index_raises(c.idx)
  IN /\ c.pc = "write_index"
     /\ index' = IF raises THEN index
                 ELSE new_index(index_for_update(c.idx), c.session_id, c.timestamp, metadata)
     /\ root' = TRUE
     /\ inflight' = [inflight EXCEPT ![p] = Idle]
     /\ SaveEnded(c.session_id, c.timestamp, c.created_at, c.body, c.link_ok,
                  IF raises THEN "raised" ELSE "returned")
     /\ UNCHANGED <<transcript, kind, dirs, files, meta, latest, clock>>

BeginStep ==
  \E p \in Procs, s \in Sessions, b \in Bodies, d \in Delays, ok \in BOOLEAN :
    StepBegin(p, s, b, d, ok)

NextSteps ==
  \/ BeginStep
  \/ \E p \in Procs : StepWriteArtifact(p)
  \/ \E p \in Procs : StepWriteMetadata(p)
  \/ \E p \in Procs : StepUnlink(p)
  \/ \E p \in Procs : StepSymlink(p)
  \/ \E p \in Procs : StepReadIndex(p)
  \/ \E p \in Procs : StepWriteIndex(p)
  \/ LoadStep

SpecSteps == Init /\ [][NextSteps]_vars

----------------------------------------------------------------------------
(* The read-side hook: main of session_start.py on the summaries store,    *)
(* automatic_mode of load_memory.py on the memories store.  The two differ *)
(* in how standard input is read.                                          *)

FreshHours == 24
DayTicks == FreshHours * 3600 * TicksPerSecond

MaxHookSaves == 2
MaxWaits == 1

NoCwd == ""
Project == "/repo"

\* source: startup, resume, clear, compact; "unknown" when the key is absent
Sources == {"clear", "startup", "compact", "unknown"}

\* what arrives on standard input: nothing, text that is not JSON, JSON that
\* is not an object ([], null, 5), or an object with the fields the hook reads
HookInputs ==
  {[form |-> "empty"], [form |-> "malformed"], [form |-> "nonobject"]}
    \union [form : {"object"}, source : Sources, cwd : {NoCwd, Project},
            session_id : Sessions \union {NoSession}]

\* the dict {}: every hook_input.get gives its default
EmptyInput == [form |-> "object", source |-> "unknown", cwd |-> NoCwd, session_id |-> NoSession]

\* session_start.py: read_hook_input gives {} for empty and for malformed
\* input.  load_memory.py: json.loads(sys.stdin.read()) raises on both.
\* JSON that parses is returned as it is.
read_hook_input(k, stdin) ==
  IF stdin.form \in {"object", "nonobject"} THEN stdin
  ELSE IF k = "summaries" THEN EmptyInput
  ELSE [form |-> "raised"]

\* datetime.fromisoformat(created_at.replace('Z', '+00:00')) of
\* metadata.get('timestamp', ...).  metadata.json holds what main recorded,
\* datetime.now().astimezone().isoformat(): a time with a UTC offset.  An
\* index entry holds the directory name, strftime("%Y%m%d_%H%M%S"): read as
\* a time without offset by Python 3.11 and later, a ValueError before.
fromisoformat(metadata, basic_format_ok) ==
  CASE metadata.form = "metadata" ->
         [parsed |-> TRUE, tzinfo |-> TRUE, t |-> metadata.timestamp]
    [] metadata.form = "entry" /\ basic_format_ok ->
         [parsed |-> TRUE, tzinfo |-> FALSE, t |-> metadata.timestamp * TicksPerSecond]
    [] OTHER ->
         [parsed |-> FALSE, tzinfo |-> FALSE, t |-> 0]

\* the freshness block: TRUE when the run ends at "age_hours > 24".
\*   now = datetime.now(summary_time.tzinfo) if summary_time.tzinfo else datetime.now()
\*   age_hours = (now - summary_time.replace(tzinfo=None)).total_seconds() / 3600
\* With an offset, now is aware and the subtrahend naive: the TypeError of
\* the subtraction is caught and the run goes on, as after a ValueError.
too_old(metadata, now, basic_format_ok) ==
  LET summary_time == fromisoformat(metadata, basic_format_ok)
  IN /\ metadata.form \in {"metadata", "entry"}
     /\ summary_time.parsed
     /\ ~summary_time.tzinfo
     /\ now - summary_time.t > DayTicks

NoOutput == [form |-> "nothing"]

\* print(format_context(summary, metadata, source, permission_mode))
format_context(summary, metadata, source) ==
  [form |-> "context", summary |-> summary, metadata |-> metadata, source |-> source]

HookEnded(state, exit_code, searched, metadata, stdout) ==
  [state |-> state, exit_code |-> exit_code, searched |-> searched,
   metadata |-> metadata, stdout |-> stdout]

\* one run of the hook, from reading standard input to sys.exit
automatic_mode(st, k, stdin, now, jq, basic_format_ok) ==
  LET hook_input == read_hook_input(k, stdin)
  IN IF hook_input.form # "object"
     THEN HookEnded("error", 1, FALSE, NoneMeta, NoOutput)
     ELSE IF hook_input.source = "clear"
     THEN HookEnded("clear", 0, FALSE, NoneMeta, NoOutput)
     ELSE IF hook_input.source = "startup"
     THEN HookEnded("startup", 0, FALSE, NoneMeta, NoOutput)
     ELSE IF hook_input.cwd = NoCwd
     THEN HookEnded("no_cwd", 0, FALSE, NoneMeta, NoOutput)
     ELSE LET found == load_latest(st, k, hook_input.session_id, jq)
          IN IF found.status = "raised"
             THEN HookEnded("error", 1, TRUE, NoneMeta, NoOutput)
             ELSE IF found.status = "none" \/ found.content = <<>>
             THEN HookEnded("not_found", 0, TRUE, NoneMeta, NoOutput)
             ELSE IF too_old(found.metadata, now, basic_format_ok)
             THEN HookEnded("found_stale", 0, TRUE, found.metadata, NoOutput)
             ELSE HookEnded("found_fresh", 0, TRUE, found.metadata,
                            format_context(found.content, found.metadata, hook_input.source))

Hook(stdin, jq, basic_format_ok) ==
  /\ ret' = [op |-> "hook", stdin |-> stdin, now |-> clock,
             result |-> automatic_mode(Store, kind, stdin, clock, jq, basic_format_ok)]
  /\ UNCHANGED <<transcript, kind, root, dirs, files, meta, latest, index, clock, inflight, history>>

\* time passes
Wait(d) ==
  /\ clock' = clock + d
  /\ UNCHANGED <<transcript, kind, root, dirs, files, meta, latest, index, inflight, ret, history>>

HookSaveStep ==
  /\ Len(history) < MaxHookSaves
  /\ \E s \in Sessions, ok \in BOOLEAN : Save(s, <<"a">>, TicksPerSecond, ok)

WaitStep ==
  /\ clock \div DayTicks < MaxWaits
  /\ \E d \in {DayTicks, DayTicks + 1} : Wait(d)

HookStep ==
  \E stdin \in HookInputs, jq \in JqModes, basic_format_ok \in BOOLEAN :
    Hook(stdin, jq, basic_format_ok)

NextHook == HookSaveStep \/ WaitStep \/ HookStep

SpecHook == Init /\ [][NextHook]_vars

----------------------------------------------------------------------------
(* The transcript: a JSONL file, one record per line.  parse_transcript of *)
(* precompact.py (both plugins) and of save_memory.py.                     *)

MaxLines == 3

\* a path: drive ("" on POSIX), absolute or not, and its components
NoPath == [drive |-> "", abs |-> FALSE, parts |-> <<>>]
NoInput == [file_path |-> NoPath, notebook_path |-> NoPath]
NoContent == [form |-> "str", text |-> <<>>]

\* a record that is a JSON object: type and, under "message", role and
\* content; created_at / timestamp at top level and under "message"; subtype
\* of system records; name and input of the older tool_use records
Record(type, role, content, timestamp) ==
  [form |-> "dict", type |-> type, role |-> role, content |-> content,
   created_at |-> NoTs, timestamp |-> timestamp,
   nested_created_at |-> NoTs, nested_timestamp |-> NoTs,
   subtype |-> "", name |-> "", input |-> NoInput]

\* valid JSON that is not an object: 5, "x", []
NonDict == [form |-> "nondict"]

StrContent(text) == [form |-> "str", text |-> text]
ListContent(blocks) == [form |-> "list", blocks |-> blocks]
TextBlock(text) == [type |-> "text", text |-> text]
ToolUseBlock(name, input) == [type |-> "tool_use", name |-> name, input |-> input]

BlankLine == [json |-> "blank", value |-> NonDict]
InvalidLine == [json |-> "invalid", value |-> NonDict]
ValidLine(value) == [json |-> "valid", value |-> value]

TranscriptOf(lines) == [exists |-> TRUE, lines |-> lines]

\* the lines of a file whose records are the given ones
RECURSIVE LinesOf(_)
LinesOf(records) ==
  IF records = <<>> THEN <<>>
  ELSE <<ValidLine(Head(records))>> \o LinesOf(Tail(records))

\* sequences of at most n elements of S
SeqsUpTo(S, n) == UNION {[1..m -> S] : m \in 0..n}

\* the except clause around the whole loop: the first bad line ends the read
RECURSIVE parse_lines_stops(_, _)
parse_lines_stops(lines, acc) ==
  IF lines = <<>> THEN acc
  ELSE IF Head(lines).json = "blank" THEN parse_lines_stops(Tail(lines), acc)
  ELSE IF Head(lines).json = "valid"
       THEN parse_lines_stops(Tail(lines), [acc EXCEPT !.messages = Append(@, Head(lines).value)])
       ELSE [acc EXCEPT !.errors = @ + 1]

\* for line in f: if line.strip(): try: messages.append(json.loads(line))
\*                                 except json.JSONDecodeError: log_error(...)
RECURSIVE parse_lines(_, _)
parse_lines(lines, acc) ==
  IF lines = <<>> THEN acc
  ELSE IF Head(lines).json = "blank" THEN parse_lines(Tail(lines), acc)
  ELSE IF Head(lines).json = "valid"
       THEN parse_lines(Tail(lines), [acc EXCEPT !.messages = Append(@, Head(lines).value)])
       ELSE parse_lines(Tail(lines), [acc EXCEPT !.errors = @ + 1])

\* parse_transcript: the records, the number of errors logged, and whether
\* an exception left the function
parse_transcript(t) ==
  IF ~t.exists
  THEN [messages |-> <<>>, errors |-> 1, raised |-> FALSE]
  ELSE parse_lines(t.lines, [messages |-> <<>>, errors |-> 0, raised |-> FALSE])

ParseRecords ==
  { Record("user", "user", StrContent(<<"h", "i">>), 1),
    Record("assistant", "assistant", StrContent(<<"o", "k">>), 2),
    NonDict }

ParseLines == {BlankLine, InvalidLine} \union {ValidLine(r) : r \in ParseRecords}

InitParse ==
  /\ InitStore
  /\ transcript \in {NoTranscript} \union {TranscriptOf(ls) : ls \in SeqsUpTo(ParseLines, MaxLines)}

Parse ==
  /\ ret' = [op |-> "parse", result |-> parse_transcript(transcript)]
  /\ UNCHANGED <<transcript, kind, root, dirs, files, meta, latest, index, clock, inflight, history>>

NextParse == Parse

SpecParse == InitParse /\ [][NextParse]_vars

----------------------------------------------------------------------------
(* extract_conversation_content: of precompact.py (both plugins) for the   *)
(* summaries store, of save_memory.py for the memories store.              *)

MaxMsgs == 2
MaxSampleLen == 2000

\* the literal '<system-reminder>'
Marker == <<"<", "s", "y", "s", "t", "e", "m", "-", "r", "e", "m", "i", "n", "d", "e", "r", ">">>

Pad(n) == [i \in 1..n |-> "x"]

\* sub in text
Contains(text, sub) ==
  \E i \in 1..(Len(text) - Len(sub) + 1) :
    text[i] = sub[1] /\ SubSeq(text, i, i + Len(sub) - 1) = sub

\* text.strip(): is anything left
strip(text) == \E i \in 1..Len(text) : text[i] \notin {" ", "LF", "CR"}

\* text[:2000]
sample(text) == SubSeq(text, 1, Min(Len(text), MaxSampleLen))

AbsPath(drive, parts) == [drive |-> drive, abs |-> TRUE, parts |-> parts]

\* the number of leading components two paths share
CommonLen(a, b) ==
  Max({n \in 0..Min(Len(a), Len(b)) : SubSeq(a, 1, n) = SubSeq(b, 1, n)})

ValueError == [drive |-> "", abs |-> FALSE, parts |-> <<"ValueError">>]

\* os.path.relpath(path, start) of absolute paths: ValueError across drives,
\* else ".." for each component of start left after the common part, then
\* what is left of path ("." when nothing is).
relpath(path, start) ==
  IF path.drive # start.drive THEN ValueError
  ELSE LET n == CommonLen(path.parts, start.parts)
           up == [i \in 1..(Len(start.parts) - n) |-> ".."]
           rest == up \o SubSeq(path.parts, n + 1, Len(path.parts))
       IN [drive |-> "", abs |-> FALSE, parts |-> IF rest = <<>> THEN <<".">> ELSE rest]

EditTools == {"Edit", "Write", "MultiEdit", "NotebookEdit"}

\* tool_input.get('file_path', tool_input.get('notebook_path', ''))
tool_file_path(input) ==
  IF input.file_path # NoPath THEN input.file_path ELSE input.notebook_path

\* what files_modified.add is given.  precompact.py: the path as it is in
\* the transcript.  save_memory.py: os.path.relpath(file_path, os.getcwd()),
\* the path itself after a ValueError.
recorded_path(k, file_path, getcwd) ==
  IF k = "summaries" THEN file_path
  ELSE IF relpath(file_path, getcwd) = ValueError THEN file_path
  ELSE relpath(file_path, getcwd)

\* tool_calls.append(...) and the tracking of file modifications
track_tool(k, acc, name, input, getcwd) ==
  LET file_path == tool_file_path(input)
      called == [acc EXCEPT !.tool_calls = Append(@, [tool |-> name, input |-> input])]
  IN IF name \in EditTools /\ file_path # NoPath
     THEN [called EXCEPT !.files_modified = @ \union {recorded_path(k, file_path, getcwd)}]
     ELSE called

\* the blocks of a user message: text blocks, not empty, without the marker
RECURSIVE user_blocks(_, _)
user_blocks(acc, blocks) ==
  IF blocks = <<>> THEN acc
  ELSE LET block == Head(blocks)
       IN user_blocks(
            IF block.type = "text" /\ block.text # <<>> /\ ~Contains(block.text, Marker)
            THEN [acc EXCEPT !.user_messages = Append(@, sample(block.text))]
            ELSE acc,
            Tail(blocks))

\* the blocks of an assistant message: text blocks, not empty; tool_use blocks
RECURSIVE assistant_blocks(_, _, _, _)
assistant_blocks(k, acc, blocks, getcwd) ==
  IF blocks = <<>> THEN acc
  ELSE LET block == Head(blocks)
       IN assistant_blocks(k,
            IF block.type = "text"
            THEN IF block.text # <<>>
                 THEN [acc EXCEPT !.assistant_messages = Append(@, sample(block.text))]
                 ELSE acc
            ELSE IF block.type = "tool_use"
                 THEN track_tool(k, acc, block.name, block.input, getcwd)
                 ELSE acc,
            Tail(blocks), getcwd)

\* ts = msg.get('created_at') or msg.get('timestamp')
\*      or nested_msg.get('created_at') or nested_msg.get('timestamp')
timestamp_of(msg) ==
  IF msg.created_at # NoTs THEN msg.created_at
  ELSE IF msg.timestamp # NoTs THEN msg.timestamp
  ELSE IF msg.nested_created_at # NoTs THEN msg.nested_created_at
  ELSE msg.nested_timestamp

\* a slip of the comparison: a message of the cutoff's own time is kept
before_cutoff_strictly(ts, start_cutoff) ==
  start_cutoff # NoTs /\ ts # NoTs /\ ts < start_cutoff

\* if start_cutoff and ts and ts <= start_cutoff: continue
before_cutoff(ts, start_cutoff) ==
  start_cutoff # NoTs /\ ts # NoTs /\ ts <= start_cutoff

\* start_time / end_time: the least and the greatest timestamp seen
note_time(acc, ts) ==
  IF ts = NoTs THEN acc
  ELSE [acc EXCEPT
          !.start_time = IF @ = NoTs \/ ts < @ THEN ts ELSE @,
          !.end_time = IF @ = NoTs \/ ts > @ THEN ts ELSE @]

\* the branches on type and role of one record that is an object
extract_content(k, acc, msg, getcwd) ==
  IF msg.type = "user" \/ msg.role = "user"
  THEN IF msg.content.form = "str"
       THEN IF strip(msg.content.text) /\ ~Contains(msg.content.text, Marker)
            THEN [acc EXCEPT !.user_messages = Append(@, sample(msg.content.text))]
            ELSE acc
       ELSE user_blocks(acc, msg.content.blocks)
  ELSE IF msg.type = "assistant" \/ msg.role = "assistant"
  THEN IF msg.content.form = "str"
       THEN IF strip(msg.content.text)
            THEN [acc EXCEPT !.assistant_messages = Append(@, sample(msg.content.text))]
            ELSE acc
       ELSE assistant_blocks(k, acc, msg.content.blocks, getcwd)
  ELSE IF msg.type = "tool_use"
  THEN track_tool(k, acc, msg.name, msg.input, getcwd)
  ELSE acc

\* one turn of "for msg in messages".  A record that is not an object:
\* save_memory.py skips it, precompact.py calls msg.get on it (AttributeError).
\* Timestamps and the cutoff are save_memory.py's alone.
extract_message(k, acc, msg, start_cutoff, getcwd) ==
  IF msg.form # "dict"
  THEN IF k = "summaries" THEN [acc EXCEPT !.raised = TRUE] ELSE acc
  ELSE IF k = "summaries" THEN extract_content(k, acc, msg, getcwd)
  ELSE IF before_cutoff(timestamp_of(msg), start_cutoff) THEN acc
  ELSE extract_content(k, note_time(acc, timestamp_of(msg)), msg, getcwd)

RECURSIVE extract_messages(_, _, _, _, _)
extract_messages(k, acc, messages, start_cutoff, getcwd) ==
  IF messages = <<>> \/ acc.raised THEN acc
  ELSE extract_messages(k, extract_message(k, acc, Head(messages), start_cutoff, getcwd),
                        Tail(messages), start_cutoff, getcwd)

EmptyContent ==
  [raised |-> FALSE, user_messages |-> <<>>, assistant_messages |-> <<>>,
   tool_calls |-> <<>>, files_modified |-> {}, message_count |-> 0,
   start_time |-> NoTs, end_time |-> NoTs]

\* the dict returned.  message_count: len(messages) in precompact.py,
\* len(user_messages) + len(assistant_messages) in save_memory.py.
extract_conversation_content(k, messages, start_cutoff, getcwd) ==
  LET acc == extract_messages(k, EmptyContent, messages, start_cutoff, getcwd)
  IN [acc EXCEPT !.message_count =
        IF k = "summaries" THEN Len(messages)
        ELSE Len(acc.user_messages) + Len(acc.assistant_messages)]

Repo == AbsPath("", <<"repo">>)
Elsewhere == AbsPath("", <<"home">>)

ExtractRecords ==
  { Record("user", "user", StrContent(<<"f", "i", "x">>), 1),
    Record("user", "user", StrContent(Marker \o <<"x">>), 2),
    Record("user", "user", StrContent(Pad(MaxSampleLen + 1)), NoTs),
    Record("user", "user",
           ListContent(<<TextBlock(Pad(MaxSampleLen - 10) \o Marker), TextBlock(<<" ">>)>>), 1),
    Record("assistant", "assistant", StrContent(<<"x">> \o Marker), 2),
    Record("assistant", "assistant",
           ListContent(<<TextBlock(<<"o", "k">>),
                         ToolUseBlock("Edit", [file_path |-> AbsPath("", <<"repo", "auth.py">>),
                                               notebook_path |-> NoPath])>>), 2),
    Record("assistant", "assistant",
           ListContent(<<ToolUseBlock("Bash", [file_path |-> AbsPath("", <<"repo", "run.sh">>),
                                               notebook_path |-> NoPath]),
                         ToolUseBlock("NotebookEdit", [file_path |-> NoPath,
                                                       notebook_path |-> AbsPath("", <<"tmp", "n.ipynb">>)])>>), 1),
    [Record("tool_use", "", NoContent, 1) EXCEPT
       !.name = "Write",
       !.input = [file_path |-> AbsPath("D:", <<"w.txt">>), notebook_path |-> NoPath]],
    Record("system", "", NoContent, 2),
    NonDict }

Cutoffs == {NoTs, 1, 2}

InitExtract ==
  /\ InitStore
  /\ transcript \in {TranscriptOf(LinesOf(rs)) : rs \in SeqsUpTo(ExtractRecords, MaxMsgs)}

\* parse_transcript, then extract_conversation_content; cwd is the hook
\* input's, getcwd the working directory of the process
Extract(start_cutoff, cwd, getcwd) ==
  /\ ret' = [op |-> "extract", start_cutoff |-> start_cutoff, cwd |-> cwd, getcwd |-> getcwd,
             messages |-> parse_transcript(transcript).messages,
             result |-> extract_conversation_content(
                          kind, parse_transcript(transcript).messages, start_cutoff, getcwd)]
  /\ UNCHANGED <<transcript, kind, root, dirs, files, meta, latest, index, clock, inflight, history>>

ExtractStep ==
  \E start_cutoff \in Cutoffs, getcwd \in {Repo, Elsewhere} : Extract(start_cutoff, Repo, getcwd)

NextExtract == ExtractStep

SpecExtract == InitExtract /\ [][NextExtract]_vars

----------------------------------------------------------------------------
(* Summary generation: generate_summary of precompact.py (both plugins),   *)
(* generate_memory of save_memory.py.  A text is a sequence of tokens: the *)
(* template's own pieces, "LF" for a line end, and the characters of what  *)
(* is copied from the transcript ("BQ" is the backquote).                  *)

Plugins == {"context-keeper", "session-persistence"}

\* what the LLM path finds: where an API key is (the shell's environment,
\* the env section of ~/.claude/settings.json, nowhere; env_null is a
\* settings.json whose "env" is null), whether the anthropic package can be
\* imported or installed, and what the API call does
LlmEnvs ==
  [api_key : {"shell", "settings", "none", "env_null"},
   package : BOOLEAN,
   api : {"raises", "empty", "text"}]

NoKey == [api_key |-> "none", package |-> TRUE, api |-> "text"]
Answering == [api_key |-> "shell", package |-> TRUE, api |-> "text"]

\* what the model answers
LlmText == <<"## Topics Discussed", "LF", "#", "a", "u", "t", "h">>

\* get_api_key: "key", "none", or "raised".  context-keeper falls back to
\* get_settings_env(), which returns settings.get("env", {}) as it is: on a
\* null the settings_env.get that follows raises AttributeError.
\* session-persistence reads os.environ only.
get_api_key(plugin, env) ==
  IF env.api_key = "shell" THEN "key"
  ELSE IF plugin = "session-persistence" THEN "none"
  ELSE IF env.api_key = "settings" THEN "key"
  ELSE IF env.api_key = "env_null" THEN "raised"
  ELSE "none"

\* generate_summary_with_llm / generate_memory_with_llm: the text, NoneText
\* for None, or "raised" when an exception leaves the function
generate_with_llm(plugin, env) ==
  IF get_api_key(plugin, env) = "raised" THEN <<"raised">>
  ELSE IF get_api_key(plugin, env) = "none" THEN NoneText
  ELSE IF ~env.package THEN NoneText
  ELSE IF env.api = "raises" THEN NoneText
  ELSE IF env.api = "empty" THEN <<>>
  ELSE LlmText

\* list(a_set): the elements in hash order, which the interpreter's hash
\* seed decides
SetToSeq(S) == CHOOSE f \in [1..Cardinality(S) -> S] : \A e \in S : \E i \in DOMAIN f : f[i] = e
Reverse(q) == [i \in 1..Len(q) |-> q[Len(q) - i + 1]]
listing(S, seed) == IF seed = 0 THEN SetToSeq(S) ELSE Reverse(SetToSeq(S))

RECURSIVE Flatten(_)
Flatten(seqs) == IF seqs = <<>> THEN <<>> ELSE Head(seqs) \o Flatten(Tail(seqs))

Letters ==
  {"a", "b", "c", "d", "e", "f", "g", "h", "i", "j", "k", "l", "m",
   "n", "o", "p", "q", "r", "s", "t", "u", "v", "w", "x", "y", "z"}

\* re.findall(r'\b[a-zA-Z]{4,}\b', msg.lower())[:5]: the first five runs of
\* four letters and more
WordStarts(text) ==
  {i \in 1..Len(text) : text[i] \in Letters /\ (i = 1 \/ text[i - 1] \notin Letters)}
WordEnd(text, i) ==
  IF \A j \in i..Len(text) : text[j] \in Letters THEN Len(text)
  ELSE Min0({j \in i..Len(text) : text[j] \notin Letters}) - 1
words(text) ==
  LET starts == {i \in WordStarts(text) : WordEnd(text, i) - i + 1 >= 4}
      first == {i \in starts : Cardinality({j \in starts : j < i}) < 5}
  IN {SubSeq(text, i, WordEnd(text, i)) : i \in first}

\* topics: the words of the first 20 user messages
topics_of(user_messages) ==
  UNION {words(user_messages[i]) : i \in 1..Min(Len(user_messages), 20)}

\* a path as it is printed
PathText(path) ==
  (IF path.abs THEN <<path.drive, "/">> ELSE <<>>)
    \o Flatten([i \in 1..Len(path.parts) |->
                  IF i = 1 THEN <<path.parts[i]>> ELSE <<"/", path.parts[i]>>])

\* tool_counts, sorted by -count (the sort is stable: ties keep the order of
\* first use), the first ten
ToolNames(tool_calls) == {tool_calls[i].tool : i \in 1..Len(tool_calls)}
ToolCount(tool_calls, tool) == Cardinality({i \in 1..Len(tool_calls) : tool_calls[i].tool = tool})
FirstUse(tool_calls, tool) == Min0({i \in 1..Len(tool_calls) : tool_calls[i].tool = tool})
sorted_tools(tool_calls) ==
  LET names == ToolNames(tool_calls)
      before(a, b) == \/ ToolCount(tool_calls, a) > ToolCount(tool_calls, b)
                      \/ /\ ToolCount(tool_calls, a) = ToolCount(tool_calls, b)
                         /\ FirstUse(tool_calls, a) < FirstUse(tool_calls, b)
      sorted == CHOOSE f \in [1..Cardinality(names) -> names] :
                  \A i, j \in DOMAIN f : i < j => before(f[i], f[j])
  IN SubSeq(sorted, 1, Min(Len(sorted), 10))

\* generate_summary_structured: the fixed template filled in
generate_summary_structured(plugin, content, session_info, seed) ==
  LET file_list == listing(content.files_modified, seed)
      tools == sorted_tools(content.tool_calls)
      requests == SubSeq(content.user_messages, 1, Min(Len(content.user_messages), 5))
      topics == listing(topics_of(content.user_messages), seed)
      keywords == SubSeq(topics, 1, Min(Len(topics), 15))
  IN <<"# Session Summary (Structured Extraction)", "LF", "LF",
       "## Metadata", "LF",
       "- **Session ID:** ", session_info.session_id, "LF",
       "- **Timestamp:** ", ToString(session_info.timestamp), "LF",
       "- **Total Messages:** ", ToString(content.message_count), "LF">>
     \o (IF plugin = "context-keeper" /\ session_info.custom_instructions # ""
         THEN <<"LF", "## Custom Instructions", "LF", session_info.custom_instructions, "LF">>
         ELSE <<>>)
     \o <<"LF", "## Files Modified", "LF">>
     \o (IF file_list = <<>> THEN <<"- None tracked">>
         ELSE Flatten([i \in 1..Len(file_list) |->
                         (IF i = 1 THEN <<>> ELSE <<"LF">>) \o <<"- ", "BQ">> \o PathText(file_list[i]) \o <<"BQ">>]))
     \o <<"LF", "LF", "## Tool Usage", "LF">>
     \o (IF tools = <<>> THEN <<"- None tracked">>
         ELSE Flatten([i \in 1..Len(tools) |->
                         (IF i = 1 THEN <<>> ELSE <<"LF">>)
                           \o <<"- ", tools[i], ": ", ToString(ToolCount(content.tool_calls, tools[i])), " calls">>]))
     \o <<"LF", "LF", "## Sample User Requests", "LF">>
     \o (IF requests = <<>> THEN <<"- None captured">>
         ELSE Flatten([i \in 1..Len(requests) |->
                         (IF i = 1 THEN <<>> ELSE <<"LF">>) \o <<"- ">>
                           \o (IF Len(requests[i]) > 200
                               THEN SubSeq(requests[i], 1, 200) \o <<"...">>
                               ELSE requests[i])]))
     \o <<"LF", "LF", "## Keywords", "LF">>
     \o (IF keywords = <<>> THEN <<"None extracted">>
         ELSE Flatten([i \in 1..Len(keywords) |->
                         (IF i = 1 THEN <<>> ELSE <<", ">>) \o keywords[i]]))
     \o <<"LF", "LF", "---", "LF",
          "*Note: This is a structured extraction. LLM-based summary unavailable (no API key or error).*",
          "LF">>

\* generate_summary: llm_summary if it is one, else the structured text
generate_summary(plugin, content, session_info, env, seed) ==
  LET llm_summary == generate_with_llm(plugin, env)
  IN IF llm_summary = <<"raised">> THEN [raised |-> TRUE, text |-> NoneText]
     ELSE IF llm_summary # NoneText /\ llm_summary # <<>>
     THEN [raised |-> FALSE, text |-> llm_summary]
     ELSE [raised |-> FALSE,
           text |-> generate_summary_structured(plugin, content, session_info, seed)]

\* generate_memory_with_llm of save_memory.py: get_summary_config reads the
\* key from the env section of settings.json alone and gives None on every
\* failure; the module imports anthropic when it is loaded, so the function
\* runs only when the package is there; every exception of the call is caught.
generate_memory_with_llm(env) ==
  IF env.api_key # "settings" THEN NoneText
  ELSE IF env.api = "raises" THEN NoneText
  ELSE IF env.api = "empty" THEN <<>>
  ELSE LlmText

\* generate_memory: llm_memory if it is one, else None ("LLM memory
\* generation failed and fallback is disabled.")
generate_memory(content, session_info, env) ==
  LET llm_memory == generate_memory_with_llm(env)
  IN IF llm_memory # NoneText /\ llm_memory # <<>>
     THEN [raised |-> FALSE, text |-> llm_memory]
     ELSE [raised |-> FALSE, text |-> NoneText]

----------------------------------------------------------------------------
(* The pre-compaction run: main of precompact.py on the summaries store,   *)
(* main of save_memory.py, with get_last_compact_time, on the memories     *)
(* store.                                                                  *)

MaxRuns == 2

\* valid JSON that is not an object and spells the marker:
\* [{"subtype":"compact_boundary"}]
MarkerArray == [form |-> "array"]

\* the tests on the text of a line: '"subtype":"compact_boundary"' in it, or
\* "Compacted" and "<local-command-stdout>" in it
has_marker_text(line) ==
  /\ line.json = "valid"
  /\ \/ line.value.form = "array"
     \/ /\ line.value.form = "dict"
        /\ \/ line.value.subtype = "compact_boundary"
           \/ /\ line.value.content.form = "str"
              /\ Contains(line.value.content.text, <<"<local-command-stdout>">>)
              /\ Contains(line.value.content.text, <<"Compacted">>)

\* data.get on a value that is no dict raises AttributeError, which the
\* json.JSONDecodeError handler around it lets through to the handler of
\* the whole scan
scan_raises(lines) ==
  \E i \in 1..Len(lines) : has_marker_text(lines[i]) /\ lines[i].value.form # "dict"

\* found_timestamps: data.get("timestamp") of the marker lines that have one
found_timestamps(lines) ==
  SelectSeq([i \in 1..Len(lines) |->
               IF has_marker_text(lines[i]) /\ lines[i].value.form = "dict"
               THEN lines[i].value.timestamp ELSE NoTs],
            LAMBDA ts : ts # NoTs)

\* found_timestamps.sort(reverse=True); found_timestamps[0]
greatest(timestamps) == Max({timestamps[i] : i \in 1..Len(timestamps)})

\* get_last_compact_time: the markers of the transcript first, unless the
\* scan raised; then metadata.json behind the session's latest link of the
\* memories store: meta.get("event_end") or meta.get("timestamp"); None
\* (NoTs) otherwise. Every exception is caught and logged.
get_last_compact_time(st, session_id, t) ==
  IF t.exists /\ ~scan_raises(t.lines) /\ found_timestamps(t.lines) # <<>>
  THEN greatest(found_timestamps(t.lines))
  ELSE IF /\ session_id \in Sessions
          /\ latest_exists(st, session_id)
          /\ <<session_id, st.latest[session_id]>> \in DOMAIN st.meta
  THEN LET latest_meta == st.meta[<<session_id, st.latest[session_id]>>]
       IN IF latest_meta.event_end # NoTs THEN latest_meta.event_end
          ELSE latest_meta.timestamp
  ELSE NoTs

\* the hook input: nothing, or an object with the session and, or not, the
\* path of the transcript
RunInputs ==
  {[form |-> "empty"]}
    \union [form : {"object"}, session_id : Sessions, transcript_path : BOOLEAN]

\* a message and the call that writes it: log_error, log_info and
\* print(..., file=sys.stderr) of precompact.py, the logging module as
\* save_memory.py configures it, the interpreter's traceback
Event(call, level, text) == [call |-> call, level |-> level, text |-> text]

\* log_info prints to stdout; logging.basicConfig of save_memory.py has a
\* StreamHandler(sys.stdout) next to the one of sys.stderr
on_stdout(event) == event.call \in {"log_info", "logging"}
on_stderr(event) == event.call \in {"log_error", "print_stderr", "logging", "traceback"}

\* what parse_transcript logs
parse_events(call) ==
  (IF ~transcript.exists THEN {Event(call, "error", "Transcript file not found")} ELSE {})
    \union (IF parse_transcript(transcript).errors > 0
            THEN {Event(call, "error", "Failed to parse line")} ELSE {})

\* what generate_summary logs
summary_events(plugin, env) ==
  IF get_api_key(plugin, env) = "raised" THEN {Event("log_error", "error", "Unexpected error")}
  ELSE (IF get_api_key(plugin, env) = "none"
        THEN {Event("log_info", "info", "No API key found")}
        ELSE IF ~env.package THEN {Event("log_error", "error", "anthropic package not available")}
        ELSE IF env.api = "raises" THEN {Event("log_error", "error", "LLM summarization failed")}
        ELSE {})
       \union (IF generate_with_llm(plugin, env) \in {NoneText, <<>>}
               THEN {Event("log_info", "info", "Using structured extraction")} ELSE {})

\* what generate_memory logs
memory_events(env) ==
  (IF env.api_key # "settings" THEN {Event("logging", "error", "No summary API key found")}
   ELSE IF env.api = "raises" THEN {Event("logging", "error", "LLM summarization failed")}
   ELSE {})
    \union (IF generate_memory_with_llm(env) \in {NoneText, <<>>}
            THEN {Event("logging", "warning", "LLM memory generation failed and fallback is disabled"),
                  Event("logging", "warning", "Failed to generate memory")}
            ELSE {})

\* the test left out: the run goes on with no message
goes_on(messages) == FALSE

\* if not messages: ... sys.exit(0)
nothing_to_summarize(messages) == messages = <<>>

RunEnded(stdin, env, exit_code, persisted, last_compact_time, content, body, events) ==
  [op |-> "main", stdin |-> stdin, env |-> env, exit_code |-> exit_code, persisted |-> persisted,
   messages |-> parse_transcript(transcript).messages,
   last_compact_time |-> last_compact_time, content |-> content, body |-> body,
   stdout |-> {e \in events : on_stdout(e)}, stderr |-> {e \in events : on_stderr(e)}]

\* a run that ends before save is called
Skip(stdin, env, exit_code, last_compact_time, content, events) ==
  /\ ret' = RunEnded(stdin, env, exit_code, FALSE, last_compact_time, content, NoneText, events)
  /\ UNCHANGED <<transcript, kind, root, dirs, files, meta, latest, index, clock, inflight, history>>

\* a run that calls save_summary / save_memory: exit code 1 when update_index
\* raises, after artifact, metadata and link are written
Persist(stdin, env, last_compact_time, content, body, delay, link_ok, events) ==
  LET now == clock + delay
      timestamp == strftime(now)
      session_id == stdin.session_id
      metadata == [session_id |-> session_id, timestamp |-> now,
                   event_end |-> content.end_time]
      raises == update_index_raises(index)
      err == IF kind = "summaries" THEN "log_error" ELSE "logging"
      info == IF kind = "summaries" THEN "log_info" ELSE "logging"
      save_events ==
        (IF link_ok THEN {} ELSE {Event(err, "error", "Failed to create latest symlink")})
          \union (IF raises THEN {Event(err, "error", "Unexpected error")}
                  ELSE {Event(info, "info", "Summary saved")})
  IN /\ clock' = now
     /\ SetStore(save_summary(Store, kind, session_id, timestamp, body, metadata, link_ok))
     /\ ret' = RunEnded(stdin, env, IF raises THEN 1 ELSE 0, ~raises, last_compact_time,
                        content, body, events \union save_events)
     /\ history' = Append(history, [session_id |-> session_id, timestamp |-> timestamp,
                                    created_at |-> now, body |-> body, link_ok |-> link_ok,
                                    status |-> IF raises THEN "raised" ELSE "returned",
                                    last_compact_time |-> last_compact_time,
                                    content |-> content,
                                    seen |-> Len(parse_transcript(transcript).messages)])
     /\ UNCHANGED <<transcript, kind, inflight>>

\* main of precompact.py (plugin is the one of the two that runs)
main_precompact(stdin, plugin, env, seed, delay, link_ok) ==
  LET messages == parse_transcript(transcript).messages
      content == extract_conversation_content("summaries", messages, NoTs, Repo)
      session_info == [session_id |-> stdin.session_id, timestamp |-> clock + delay,
                       custom_instructions |-> ""]
      summary == generate_summary(plugin, content, session_info, env, seed)
      parsed == parse_events("log_error")
      unexpected == {Event("log_error", "error", "Unexpected error")}
  IN IF stdin.form = "empty"
     THEN Skip(stdin, env, 1, NoTs, EmptyContent, {Event("log_error", "error", "No input received")})
     ELSE IF ~stdin.transcript_path
     THEN Skip(stdin, env, 1, NoTs, EmptyContent,
               {Event("log_error", "error", "No transcript path provided")})
     ELSE IF nothing_to_summarize(messages)
     THEN Skip(stdin, env, 0, NoTs, EmptyContent,
               parsed \union {Event(IF plugin = "context-keeper" THEN "print_stderr" ELSE "log_info",
                                    "info", "No messages in transcript, skipping")})
     ELSE IF content.raised THEN Skip(stdin, env, 1, NoTs, content, parsed \union unexpected)
     ELSE IF summary.raised
     THEN Skip(stdin, env, 1, NoTs, content, parsed \union summary_events(plugin, env))
     ELSE Persist(stdin, env, NoTs, content, summary.text, delay, link_ok,
                  parsed \union summary_events(plugin, env))

\* main of save_memory.py; "import anthropic" at the top of the module ends
\* the script before main when the package is missing
main_save_memory(stdin, env, getcwd, delay, link_ok) ==
  LET messages == parse_transcript(transcript).messages
      session_id == IF stdin.form = "empty" THEN NoSession ELSE stdin.session_id
      last_compact_time == get_last_compact_time(Store, session_id, transcript)
      content == extract_conversation_content("memories", messages, last_compact_time, getcwd)
      session_info == [session_id |-> session_id, timestamp |-> clock + delay,
                       custom_instructions |-> ""]
      memory == generate_memory(content, session_info, env)
      parsed == parse_events("logging")
      scanned == IF transcript.exists /\ scan_raises(transcript.lines)
                 THEN {Event("logging", "warning", "Failed to scan transcript for compaction time")}
                 ELSE {}
  IN IF ~env.package
     THEN Skip(stdin, env, 1, NoTs, EmptyContent, {Event("traceback", "error", "ModuleNotFoundError")})
     ELSE IF stdin.form = "empty" \/ ~stdin.transcript_path
     THEN Skip(stdin, env, 1, NoTs, EmptyContent,
               {Event("logging", "error", "No transcript path provided")})
     ELSE IF nothing_to_summarize(messages)
     THEN Skip(stdin, env, 0, NoTs, EmptyContent,
               parsed \union {Event("logging", "info", "No messages in transcript, skipping")})
     ELSE IF memory.text = NoneText
     THEN Skip(stdin, env, 0, last_compact_time, content,
               parsed \union scanned \union memory_events(env))
     ELSE Persist(stdin, env, last_compact_time, content, memory.text, delay, link_ok,
                  parsed \union scanned \union memory_events(env))

Main(stdin, plugin, env, seed, getcwd, delay, link_ok) ==
  IF kind = "summaries"
  THEN main_precompact(stdin, plugin, env, seed, delay, link_ok)
  ELSE main_save_memory(stdin, env, getcwd, delay, link_ok)

\* generate_summary on what the transcript gives
Generate(plugin, env, seed, custom_instructions) ==
  LET content == extract_conversation_content(
                   "summaries", parse_transcript(transcript).messages, NoTs, Repo)
      session_info == [session_id |-> "A", timestamp |-> clock,
                       custom_instructions |-> custom_instructions]
  IN /\ kind = "summaries"
     /\ ~content.raised
     /\ ret' = [op |-> "generate_summary", plugin |-> plugin, env |-> env,
                content |-> content, session_info |-> session_info,
                result |-> generate_summary(plugin, content, session_info, env, seed)]
     /\ UNCHANGED <<transcript, kind, root, dirs, files, meta, latest, index, clock, inflight, history>>

\* get_last_compact_time for a session
LastCompact(session_id) ==
  /\ kind = "memories"
  /\ ret' = [op |-> "last_compact", session_id |-> session_id,
             result |-> get_last_compact_time(Store, session_id, transcript)]
  /\ UNCHANGED <<transcript, kind, root, dirs, files, meta, latest, index, clock, inflight, history>>

UserFix == Record("user", "user", StrContent(<<"f", "i", "x", " ", "l", "o", "g", "i", "n">>), 1)
UserUntimed == Record("user", "user", StrContent(<<"m", "o", "r", "e">>), NoTs)
AssistantEdit ==
  Record("assistant", "assistant",
         ListContent(<<ToolUseBlock("Edit", [file_path |-> AbsPath("", <<"repo", "auth.py">>),
                                             notebook_path |-> NoPath])>>), 2)
Boundary(timestamp) == [Record("system", "", NoContent, timestamp) EXCEPT !.subtype = "compact_boundary"]
StdoutMarker ==
  Record("user", "user", StrContent(<<"<local-command-stdout>", "Compacted", "</local-command-stdout>">>), 1)

RunTranscripts ==
  { NoTranscript,
    TranscriptOf(<<InvalidLine, BlankLine>>),
    TranscriptOf(LinesOf(<<UserFix, AssistantEdit>>)),
    TranscriptOf(LinesOf(<<UserUntimed>>)),
    TranscriptOf(LinesOf(<<UserFix, Boundary(3), StdoutMarker, AssistantEdit>>)),
    TranscriptOf(LinesOf(<<Boundary(NoTs), UserFix>>)),
    TranscriptOf(LinesOf(<<UserFix, Boundary(3), MarkerArray>>)) }

InitRun ==
  /\ InitStore
  /\ transcript \in RunTranscripts

MainStep ==
  /\ Len(history) < MaxRuns
  /\ \E stdin \in RunInputs, plugin \in Plugins, env \in {NoKey, Answering, [Answering EXCEPT !.api_key = "settings"]}, link_ok \in BOOLEAN :
       Main(stdin, plugin, env, 0, Repo, TicksPerSecond, link_ok)

GenerateStep ==
  \E plugin \in Plugins, env \in LlmEnvs, seed \in {0, 1}, custom_instructions \in {"", "be brief"} :
    Generate(plugin, env, seed, custom_instructions)

LastCompactStep == \E s \in Sessions : LastCompact(s)

\* the next hook input names another transcript file
OtherTranscript(t) ==
  /\ transcript' = t
  /\ UNCHANGED <<kind, root, dirs, files, meta, latest, index, clock, inflight, ret, history>>

OtherTranscriptStep == \E t \in RunTranscripts : OtherTranscript(t)

NextRun == MainStep \/ LastCompactStep

SpecRun == InitRun /\ [][NextRun]_vars

\* runs of one session, with a key in settings.json or with none, each
\* on the transcript that the hook input of the time names
QuietMainStep ==
  /\ Len(history) < MaxRuns
  /\ \E transcript_path \in BOOLEAN, plugin \in Plugins, env \in {NoKey, [Answering EXCEPT !.api_key = "settings"]} :
       Main([form |-> "object", session_id |-> "A", transcript_path |-> transcript_path],
            plugin, env, 0, Repo, TicksPerSecond, TRUE)

NextQuiet == QuietMainStep \/ OtherTranscriptStep

SpecQuiet == InitRun /\ [][NextQuiet]_vars

\* the transcripts of the runs, and one whose user messages hold two words
\* of four letters
InitGenerate ==
  /\ InitStore
  /\ transcript \in RunTranscripts \union {TranscriptOf(LinesOf(<<UserFix, UserUntimed>>))}

NextGenerate == GenerateStep

SpecGenerate == InitGenerate /\ [][NextGenerate]_vars

----------------------------------------------------------------------------
(* Finding an artifact by the first characters of its session id or of    *)
(* its timestamp: main of load_context.py, find_memory_by_identifier of   *)
(* load_memory.py.                                                        *)

MaxFindSaves == 3
MaxIdLen == 2

\* the characters of a session id, and of a timestamp as strftime writes
\* it, always the same number of digits
SessionText(session_id) == IF session_id = "A" THEN <<"0", "a">> ELSE <<"1", "b">>
TimestampText(timestamp) == <<ToString((timestamp \div 10) % 10), ToString(timestamp % 10)>>

IdChars == {"0", "1", "a"}

\* identifiers with a backslash (BS), parentheses or a double quote (QUOTE)
EscapedIdentifiers ==
  { <<"BS", "(", "0", ")">>, <<"BS", "(", "a", ")">>, <<"BS", "BS">>, <<"BS", "QUOTE">>,
    <<"0", "BS">>, <<"QUOTE">>, <<"1", "QUOTE">> }

Identifiers == UNION {[1..n -> IdChars] : n \in 1..MaxIdLen} \union EscapedIdentifiers

\* str.startswith, and startswith of jq
startswith(text, prefix) ==
  /\ Len(prefix) <= Len(text)
  /\ \A i \in 1..Len(prefix) : text[i] = prefix[i]

\* s.get("session_id", "").startswith(identifier)
\*   or s.get("timestamp", "").startswith(identifier)
matches(entry, identifier) ==
  \/ startswith(SessionText(entry.session_id), identifier)
  \/ startswith(TimestampText(entry.timestamp), identifier)

\* the index of the first ")" of q, 0 when there is none
Closing(q) ==
  IF \E i \in 1..Len(q) : q[i] = ")" THEN Min0({i \in 1..Len(q) : q[i] = ")"}) ELSE 0

\* a number as jq writes it in a string: the digits, for the digits of a
\* number with no zero in front
NumberLiteral(q) ==
  /\ q # <<>>
  /\ \A i \in 1..Len(q) : q[i] \in {"0", "1"}
  /\ Len(q) > 1 => q[1] # "0"

JqError == [ok |-> FALSE, text |-> <<>>]

\* startswith("{identifier}") inside the program given to jq: the
\* identifier is put between the quotes as it is, and jq reads it as a
\* string literal.  A quote ends the literal, and what follows it is no
\* program; a backslash starts an escape: \\ and \" stand for the one
\* character, \( ... ) for the value of the expression in it.
RECURSIVE jq_string(_)
jq_string(q) ==
  IF q = <<>> THEN [ok |-> TRUE, text |-> <<>>]
  ELSE IF Head(q) = "QUOTE" THEN JqError
  ELSE IF Head(q) = "BS"
  THEN IF Len(q) = 1 THEN JqError
       ELSE IF q[2] \in {"BS", "QUOTE"}
       THEN LET rest == jq_string(SubSeq(q, 3, Len(q)))
            IN IF rest.ok THEN [ok |-> TRUE, text |-> <<q[2]>> \o rest.text] ELSE JqError
       ELSE IF q[2] = "(" /\ Closing(q) > 3 /\ NumberLiteral(SubSeq(q, 3, Closing(q) - 1))
       THEN LET rest == jq_string(SubSeq(q, Closing(q) + 1, Len(q)))
            IN IF rest.ok THEN [ok |-> TRUE, text |-> SubSeq(q, 3, Closing(q) - 1) \o rest.text]
               ELSE JqError
       ELSE JqError
  ELSE LET rest == jq_string(Tail(q))
       IN IF rest.ok THEN [ok |-> TRUE, text |-> <<Head(q)>> \o rest.text] ELSE JqError

\* select(.session_id | startswith(p)) // select(.timestamp | startswith(p)):
\* what the left side gives, and what the right side gives when the left
\* side gives nothing
jq_select(entry, prefix) ==
  LET left == IF startswith(SessionText(entry.session_id), prefix) THEN <<entry>> ELSE <<>>
      right == IF startswith(TimestampText(entry.timestamp), prefix) THEN <<entry>> ELSE <<>>
  IN IF left # <<>> THEN left ELSE right

\* jq -c '.summaries | map(...) | .[0]': None when jq is not there, when it
\* fails (the program does not compile, the index is no object with the
\* list), and when it prints null
jq_find(idx, identifier, jq) ==
  IF jq = "answers" /\ idx.kind = "object" /\ jq_string(identifier).ok
  THEN LET found == Flatten([i \in 1..Len(idx.summaries) |->
                               jq_select(idx.summaries[i], jq_string(identifier).text)])
       IN IF found = <<>> THEN NoneMeta ELSE found[1]
  ELSE NoneMeta

\* for s in summaries: if ...: entry = s; break, with keep deciding whether
\* a matching entry is taken
RECURSIVE first_match(_, _, _)
first_match(entries, identifier, keep) ==
  IF entries = <<>> THEN NoneMeta
  ELSE IF matches(Head(entries), identifier) /\ Head(entries).summary_path \in keep
       THEN Head(entries)
       ELSE first_match(Tail(entries), identifier, keep)

\* main of load_context.py with an identifier: jq, then load_index_fallback
\* and the loop, then the summary file of the entry
find_by_identifier(st, identifier, jq) ==
  IF ~st.root \/ st.index.kind = "missing" THEN NotFound
  ELSE IF jq_find(st.index, identifier, jq) # NoneMeta
  THEN load_entry(st, "summaries", jq_find(st.index, identifier, jq))
  ELSE IF st.index.kind = "nonobject" THEN Raised
  ELSE IF st.index.kind # "object" THEN NotFound
  ELSE LET entry == first_match(st.index.summaries, identifier, {st.index.summaries[i].summary_path : i \in 1..Len(st.index.summaries)})
       IN IF entry = NoneMeta THEN NotFound ELSE load_entry(st, "summaries", entry)

\* find_memory_by_identifier: the entry jq gives when its file is there,
\* else the first matching entry whose file is there
find_memory_by_identifier(st, identifier, jq) ==
  IF st.index.kind = "missing" THEN NotFound
  ELSE IF /\ jq_find(st.index, identifier, jq) # NoneMeta
          /\ jq_find(st.index, identifier, jq).summary_path \in DOMAIN st.files
  THEN load_entry(st, "memories", jq_find(st.index, identifier, jq))
  ELSE IF st.index.kind = "nonobject" THEN Raised
  ELSE IF st.index.kind # "object" THEN NotFound
  ELSE LET entry == first_match(st.index.summaries, identifier, DOMAIN st.files)
       IN IF entry = NoneMeta THEN NotFound ELSE load_entry(st, "memories", entry)

\* one call with an identifier
Find(identifier, jq) ==
  /\ ret' = [op |-> "find", identifier |-> identifier, jq |-> jq,
             result |-> IF kind = "summaries" THEN find_by_identifier(Store, identifier, jq)
                        ELSE find_memory_by_identifier(Store, identifier, jq)]
  /\ UNCHANGED <<transcript, kind, root, dirs, files, meta, latest, index, clock, inflight, history>>

FindSaveStep ==
  /\ Len(history) < MaxFindSaves
  /\ \E s \in Sessions, d \in Delays : Save(s, <<"a">>, d, TRUE)

FindStep == \E identifier \in Identifiers, jq \in JqModes : Find(identifier, jq)

NextFind == FindSaveStep \/ FindStep

SpecFind == Init /\ [][NextFind]_vars

----------------------------------------------------------------------------
(* update_index of two processes, with write_text in its two steps: the    *)
(* file is opened for writing, which empties it, and the text is written   *)
(* when the file is closed.                                                *)

MaxRaceSaves == 2

\* index.json with no JSON in it: between open(mode='w') and the write, and
\* after a shorter text was written over a longer one
EmptyFile == [kind |-> "unparsable", summaries |-> <<>>, last_session |-> NoSession]

\* a save that ends before the two processes start
RacePrior(session_id) ==
  /\ history = <<>>
  /\ \A p \in Procs : inflight[p].pc = "idle"
  /\ Save(session_id, <<"a">>, TicksPerSecond, TRUE)

\* save_summary of process p up to the call of update_index
RaceBegin(p, session_id) ==
  LET now == clock + TicksPerSecond
      timestamp == strftime(now)
      metadata == [session_id |-> session_id, timestamp |-> now, event_end |-> NoTs]
  IN /\ inflight[p].pc = "idle"
     /\ history # <<>>
     /\ Started < 1 + MaxRaceSaves
     /\ clock' = now
     /\ SetStore(save_artifact(Store, kind, session_id, timestamp, <<"a">>, metadata, TRUE))
     /\ inflight' = [inflight EXCEPT ![p] =
                       [pc |-> "read_index", session_id |-> session_id,
                        timestamp |-> timestamp, created_at |-> now, body |-> <<"a">>,
                        link_ok |-> TRUE, idx |-> MissingIndex]]
     /\ UNCHANGED <<transcript, kind, ret, history>>

\* index["summaries"].insert(0, entry), and then write_text opens the file
StepOpenIndex(p) ==
  LET c == inflight[p]
      raises == update_index_raises(c.idx)
  IN /\ c.pc = "write_index"
     /\ IF raises
        THEN /\ inflight' = [inflight EXCEPT ![p] = Idle]
             /\ SaveEnded(c.session_id, c.timestamp, c.created_at, c.body, c.link_ok, "raised")
             /\ UNCHANGED <<root, index>>
        ELSE /\ index' = EmptyFile
             /\ root' = TRUE
             /\ Goto(p, "flush_index")
             /\ UNCHANGED <<ret, history>>
     /\ UNCHANGED <<transcript, kind, dirs, files, meta, latest, clock>>

\* write_text writes json.dumps(index) from the start of the file and
\* closes it.  Text in the file now was written by the other process after
\* this one opened it: what is longer than the text written here stays
\* behind it, and the file is no JSON.
StepFlushIndex(p) ==
  LET c == inflight[p]
      metadata == [session_id |-> c.session_id, timestamp |-> c.created_at, event_end |-> NoTs]
      written == new_index(index_for_update(c.idx), c.session_id, c.timestamp, metadata)
  IN /\ c.pc = "flush_index"
     /\ index' = IF index.kind = "object" /\ Len(index.summaries) > Len(written.summaries)
                 THEN EmptyFile
                 ELSE written
     /\ inflight' = [inflight EXCEPT ![p] = Idle]
     /\ SaveEnded(c.session_id, c.timestamp, c.created_at, c.body, c.link_ok, "returned")
     /\ UNCHANGED <<transcript, kind, root, dirs, files, meta, latest, clock>>

NextRace ==
  \/ \E s \in Sessions : RacePrior(s)
  \/ \E p \in Procs, s \in Sessions : RaceBegin(p, s)
  \/ \E p \in Procs : StepReadIndex(p)
  \/ \E p \in Procs : StepOpenIndex(p)
  \/ \E p \in Procs : StepFlushIndex(p)

SpecRace == Init /\ [][NextRace]_vars

----------------------------------------------------------------------------
(* Saves that may be cut short: the process is killed between two of its   *)
(* file-system calls, or inside write_text between the opening of the file *)
(* and the writing of the text.                                            *)

MaxAbortSaves == 2

\* the artifact file between open(mode='w') and the write: nothing in it
TruncatedFile == <<"truncated">>

AbortBegin(p, session_id, body, delay) ==
  /\ Started < MaxAbortSaves
  /\ StepBegin(p, session_id, body, delay, TRUE)

\* summary_path.write_text(...): the file is opened, which empties it
StepOpenArtifact(p) ==
  LET c == inflight[p]
  IN /\ c.pc = "write_artifact"
     /\ files' = (<<c.session_id, c.timestamp>> :> TruncatedFile) @@ files
     /\ Goto(p, "flush_artifact")
     /\ UNCHANGED <<transcript, kind, root, dirs, meta, latest, index, clock, ret, history>>

\* ... and the text is written
StepFlushArtifact(p) ==
  LET c == inflight[p]
  IN /\ c.pc = "flush_artifact"
     /\ SetStore(write_artifact(Store, kind, c.session_id, c.timestamp, c.body))
     /\ Goto(p, "write_metadata")
     /\ UNCHANGED <<transcript, kind, clock, ret, history>>

\* the process ends where it is; what it wrote stays
Abort(p) ==
  LET c == inflight[p]
  IN /\ c.pc # "idle"
     /\ inflight' = [inflight EXCEPT ![p] = Idle]
     /\ SaveEnded(c.session_id, c.timestamp, c.created_at, c.body, c.link_ok, "aborted")
     /\ UNCHANGED <<transcript, kind, root, dirs, files, meta, latest, index, clock>>

NextAbort ==
  \/ \E p \in Procs, s \in Sessions, b \in Bodies, d \in Delays : AbortBegin(p, s, b, d)
  \/ \E p \in Procs : StepOpenArtifact(p)
  \/ \E p \in Procs : StepFlushArtifact(p)
  \/ \E p \in Procs : StepWriteMetadata(p)
  \/ \E p \in Procs : StepUnlink(p)
  \/ \E p \in Procs : StepSymlink(p)
  \/ \E p \in Procs : StepReadIndex(p)
  \/ \E p \in Procs : StepWriteIndex(p)
  \/ \E p \in Procs : Abort(p)

SpecAbort == Init /\ [][NextAbort]_vars

----------------------------------------------------------------------------
(* save_memory.py run again and again on the transcript of one session,    *)
(* which grows in between by user messages and by the compact_boundary     *)
(* record that the compaction writes.                                      *)

MaxGrowLines == 3
MaxGrowRuns == 2

\* the text of the n-th line, no two alike
MessageText(n) == <<"m", "s", "g", ToString(n)>>

AppendLine(record) ==
  /\ Len(transcript.lines) < MaxGrowLines
  /\ clock' = clock + 1
  /\ transcript' = TranscriptOf(Append(transcript.lines, ValidLine(record)))
  /\ UNCHANGED <<kind, root, dirs, files, meta, latest, index, inflight, ret, history>>

\* a user message, with the time of its writing or with no timestamp
Speak(timed) ==
  AppendLine(Record("user", "user", StrContent(MessageText(Len(transcript.lines) + 1)),
                    IF timed THEN clock + 1 ELSE NoTs))

\* the compaction writes its boundary record
Compact == AppendLine(Boundary(clock + 1))

\* a run of the script, from the hook or from the command line: both give
\* main the session and the path of the transcript
GrowMainStep ==
  /\ Len(history) < MaxGrowRuns
  /\ \E env \in {NoKey, [Answering EXCEPT !.api_key = "settings"]} :
       Main([form |-> "object", session_id |-> "A", transcript_path |-> TRUE],
            "context-keeper", env, 0, Repo, TicksPerSecond, TRUE)

InitGrow ==
  /\ InitStore
  /\ kind = "memories"
  /\ transcript = TranscriptOf(<<>>)

NextGrow ==
  \/ \E timed \in BOOLEAN : Speak(timed)
  \/ Compact
  \/ GrowMainStep

SpecGrow == InitGrow /\ [][NextGrow]_vars

----------------------------------------------------------------------------
(* The tool-proxy scripts: exa_search.py and exa_code.py go through         *)
(* MCPClient, the scripts of context7, deepwiki and github through          *)
(* HttpConnector.                                                           *)

ClientScripts == {"exa_search", "exa_code"}
ConnectorScripts ==
  {"context7_resolve", "deepwiki_structure", "github_file_contents", "github_search_code"}
Scripts == ClientScripts \union ConnectorScripts

\* the names the script looks for among the listed tools, in its order
accepted(script) ==
  CASE script = "exa_search" -> <<"web_search_exa", "search", "web_search">>
    [] script = "exa_code" -> <<"get_code_context_exa", "code_context", "get_code_context">>
    [] script = "context7_resolve" -> <<"resolve-library-id">>
    [] script = "deepwiki_structure" -> <<"read_wiki_structure">>
    [] script = "github_file_contents" -> <<"get_file_contents">>
    [] OTHER -> <<"search_code">>

\* what the script meets: the mcp-use package, the configuration, the step
\* of the exchange that raises, whether closing raises, whether the server
\* is among the sessions, the tools it lists, what the tool answers
Remotes(script) ==
  [package : BOOLEAN, config : BOOLEAN,
   fails_at : {"none", "load", "open", "list", "call"}, close_raises : BOOLEAN,
   server : BOOLEAN,
   listed : SUBSET ({accepted(script)[i] : i \in 1..Len(accepted(script))} \union {"other"}),
   is_error : BOOLEAN]

Failure == [success |-> FALSE]
Success == [success |-> TRUE]

\* what a run leaves: the JSON objects printed on stdout, the exit code,
\* whether an exception left the script, and the calls made to the remote
\* side, in order
ProxyEnded(printed, crashed, calls) ==
  [printed |-> printed, crashed |-> crashed,
   exit_code |-> IF crashed \/ printed # <<Success>> THEN 1 ELSE 0,
   calls |-> calls]

\* the tool to call: the first accepted name that is listed
RECURSIVE first_listed(_, _)
first_listed(names, listed) ==
  IF names = <<>> THEN ""
  ELSE IF Head(names) \in listed THEN Head(names)
  ELSE first_listed(Tail(names), listed)

\* the try block of both families from the first remote call on: the dict
\* returned and the calls made
exchange(script, remote) ==
  IF remote.fails_at = "load" THEN [result |-> Failure, calls |-> <<>>, bound |-> FALSE]
  ELSE IF remote.fails_at = "open"
  THEN [result |-> Failure, calls |-> <<"load">>, bound |-> TRUE]
  ELSE IF script \in ClientScripts /\ ~remote.server
  THEN [result |-> Failure, calls |-> <<"load", "open">>, bound |-> TRUE]
  ELSE IF remote.fails_at = "list"
  THEN [result |-> Failure, calls |-> <<"load", "open">>, bound |-> TRUE]
  ELSE IF first_listed(accepted(script), remote.listed) = ""
  THEN [result |-> Failure, calls |-> <<"load", "open", "list_tools">>, bound |-> TRUE]
  ELSE IF remote.fails_at = "call"
  THEN [result |-> Failure, calls |-> <<"load", "open", "list_tools">>, bound |-> TRUE]
  ELSE [result |-> IF remote.is_error THEN Failure ELSE Success,
        calls |-> <<"load", "open", "list_tools",
                    first_listed(accepted(script), remote.listed)>>,
        bound |-> TRUE]

\* finally: if connector: try: await connector.disconnect() except: pass
connector_finally(done, remote) ==
  ProxyEnded(<<done.result>>, FALSE,
             IF done.bound THEN Append(done.calls, "close") ELSE done.calls)

\* finally: await client.close_all_sessions(), with client not bound when
\* from_config_file raised, and with nothing around the call
client_finally(done, remote) ==
  IF ~done.bound THEN ProxyEnded(<<>>, TRUE, done.calls)
  ELSE IF remote.close_raises THEN ProxyEnded(<<>>, TRUE, done.calls)
  ELSE ProxyEnded(<<done.result>>, FALSE, Append(done.calls, "close"))

\* main: asyncio.run(...), print(json.dumps(result)), sys.exit(0 or 1)
proxy_main(script, remote) ==
  IF ~remote.package \/ ~remote.config THEN ProxyEnded(<<Failure>>, FALSE, <<>>)
  ELSE IF script \in ClientScripts THEN client_finally(exchange(script, remote), remote)
  ELSE connector_finally(exchange(script, remote), remote)

\* one run of one script: a process of its own
Proxy(script, remote) ==
  /\ ret = NoRet
  /\ ret' = [op |-> "proxy", script |-> script, remote |-> remote,
             result |-> proxy_main(script, remote)]
  /\ UNCHANGED <<transcript, kind, root, dirs, files, meta, latest, index, clock, inflight, history>>

NextProxy == \E script \in Scripts : \E remote \in Remotes(script) : Proxy(script, remote)

SpecProxy == Init /\ [][NextProxy]_vars

----------------------------------------------------------------------------
(* Properties *)

\* the save calls of a session that returned
SavesOf(s) == {i \in DOMAIN history : history[i].session_id = s /\ history[i].status = "returned"}
HasSaved(s) == SavesOf(s) # {}
LastSaveOf(s) == history[Max(SavesOf(s))]

\* the index entry that belongs to a save call
EntryOf(h) ==
  [form |-> "entry", session_id |-> h.session_id, timestamp |-> h.timestamp,
   created_at |-> h.created_at, summary_path |-> <<h.session_id, h.timestamp>>]

\* a step in which a save call ends
SaveEnds == Len(history') = Len(history) + 1

\* C1: after n saves made one after another the index list holds min(n, 100)
\* entries, and they are the entries of the most recent saves, newest first:
\* the j-th entry is that of the j-th last save.
C1_IndexRing ==
  /\ history # <<>> => index.kind = "object"
  /\ Len(index.summaries) = Min(Len(history), IndexLimit)
  /\ \A j \in 1..Len(index.summaries) :
       index.summaries[j] = EntryOf(history[Len(history) - j + 1])

C1_Witness ==
  /\ Len(history) > IndexLimit
  /\ Len(index.summaries) = IndexLimit
  /\ index.summaries[IndexLimit].timestamp = history[Len(history) - IndexLimit + 1].timestamp

\* C2: a load_latest for a session that has saved returns exactly the body of
\* that session's last save, whatever other sessions have saved since.
C2_RoundTrip ==
  (ret.op = "load" /\ ret.session_id # NoSession /\ HasSaved(ret.session_id))
    => /\ ret.result.status = "found"
       /\ ret.result.content = LastSaveOf(ret.session_id).body

C3_PointerState ==
  \A s \in Sessions :
    latest[s] = IF HasSaved(s) /\ LastSaveOf(s).link_ok
                THEN LastSaveOf(s).timestamp
                ELSE NoLink

C3_PointerFrame ==
  SaveEnds => \A s \in Sessions :
                s # history'[Len(history')].session_id => latest'[s] = latest[s]

C4_LoadLatest ==
  ret.op = "load" =>
    LET s == ret.session_id
        pointed == s # NoSession /\ latest[s] # NoLink
    IN /\ pointed =>
            ret.result = Found(read_artifact(kind, files[<<s, latest[s]>>]),
                               meta[<<s, latest[s]>>])
       /\ (/\ ~pointed
           /\ index.kind = "object"
           /\ Len(index.summaries) > 0
           /\ index.summaries[1].summary_path \in DOMAIN files)
            => /\ ret.result = Found(read_artifact(kind, files[index.summaries[1].summary_path]),
                                     index.summaries[1])
               /\ index.summaries[1] = EntryOf(history[Len(history)])
               /\ files[index.summaries[1].summary_path]
                    = artifact_file(kind, history[Len(history)].session_id,
                                    history[Len(history)].timestamp,
                                    history[Len(history)].body)

C4_Witness ==
  /\ ret.op = "load"
  /\ ret.session_id = "B"
  /\ latest["B"] # NoLink
  /\ index.kind = "object"
  /\ Len(index.summaries) > 0
  /\ index.summaries[1].session_id = "A"
  /\ index.summaries[1].summary_path \in DOMAIN files
  /\ ret.result.status = "found"
  /\ ret.result.metadata.session_id = "B"

\* C5: every save creates a timestamp directory of its own, and the artifact
\* and metadata a save has written stay as they were written.
C5_NeverMutated ==
  /\ Cardinality(dirs) = Len(history)
  /\ \A i \in DOMAIN history :
       LET h == history[i]
           p == <<h.session_id, h.timestamp>>
       IN /\ p \in DOMAIN files
          /\ files[p] = artifact_file(kind, h.session_id, h.timestamp, h.body)
          /\ p \in DOMAIN meta
          /\ meta[p].timestamp = h.created_at

\* C6: load_latest returns an artifact with metadata or (None, None), and
\* never raises, in every state of the store.
C6_LoadNeverRaises ==
  ret.op = "load" => ret.result.status \in {"found", "none"}

\* C7: a save that finds index.json unparsable returns, writes an index that
\* holds the one new entry and last_session, and leaves every artifact
\* directory that existed before the save as it was.
C7_Step ==
  (SaveEnds /\ index.kind = "unparsable")
    => /\ ret'.status = "returned"
       /\ index' = [kind |-> "object",
                    summaries |-> <<EntryOf(history'[Len(history')])>>,
                    last_session |-> ret'.session_id]
       /\ dirs \subseteq dirs'
       /\ \A p \in DOMAIN files : files'[p] = files[p]
       /\ \A p \in DOMAIN meta : meta'[p] = meta[p]

\* C7: every save that finds index.json unparsable is such a step
C7_CorruptIndexSave == [][C7_Step]_vars

\* C8: once a save of a session has returned with its link created, every
\* load_latest for that session goes through the latest pointer, also while
\* another save of the session is replacing it: it never finds the pointer
\* absent and falls back to the index.  (Only saves whose link creation
\* succeeds are looked at, those in progress included.)
C8_PointerNeverAbsent ==
  (/\ ret.op = "load"
   /\ ret.session_id # NoSession
   /\ HasSaved(ret.session_id)
   /\ \A i \in SavesOf(ret.session_id) : history[i].link_ok
   /\ \A p \in Procs : inflight[p].pc # "idle" => inflight[p].link_ok)
    => /\ ret.result.status = "found"
       /\ ret.result.metadata.form = "metadata"

\* C9: a save whose link creation failed with an OS error returns the
\* artifact path; artifact and metadata are in place, the index starts with
\* the new entry and last_session is the saving session.
C9_LinkFailureTolerated ==
  (ret.op = "save" /\ ret.link_error_logged)
    => LET h == history[Len(history)]
       IN /\ ret.status = "returned"
          /\ ret.path = <<h.session_id, h.timestamp>>
          /\ ret.path \in DOMAIN files
          /\ files[ret.path] = artifact_file(kind, h.session_id, h.timestamp, h.body)
          /\ ret.path \in DOMAIN meta
          /\ meta[ret.path].summary_timestamp = h.timestamp
          /\ index.kind = "object"
          /\ Len(index.summaries) > 0
          /\ index.summaries[1] = EntryOf(h)
          /\ index.last_session = h.session_id

C9_Witness ==
  /\ ret.op = "save"
  /\ ret.link_error_logged
  /\ ret.status = "returned"
  /\ Len(history) = 2
  /\ history[1].session_id = ret.session_id
  /\ Len(index.summaries) = 2

\* C10: no two index entries have the same (session_id, timestamp) pair.
C10_OneRowPerArtifact ==
  \A i, j \in 1..Len(index.summaries) :
    i # j => <<index.summaries[i].session_id, index.summaries[i].timestamp>>
               # <<index.summaries[j].session_id, index.summaries[j].timestamp>>

\* the time of creation an artifact's metadata records, in ticks
RecordedTime(metadata) ==
  IF metadata.form = "metadata" THEN metadata.timestamp ELSE metadata.created_at

\* C11: whenever the read-side hook writes context to standard output the
\* artifact found is at most 24 hours old, and an artifact older than 24
\* hours ends the run found-stale, with nothing on standard output and exit
\* code 0.  Looked at for the timestamps the save side records in
\* metadata.json (ISO-8601 local time with a UTC offset).
C11_Freshness ==
  (/\ ret.op = "hook"
   /\ ret.result.state \in {"found_fresh", "found_stale"}
   /\ ret.result.metadata.form = "metadata")
    => LET age == ret.now - RecordedTime(ret.result.metadata)
       IN /\ ret.result.stdout # NoOutput => age <= DayTicks
          /\ age > DayTicks => /\ ret.result.state = "found_stale"
                               /\ ret.result.stdout = NoOutput
                               /\ ret.result.exit_code = 0

\* C12: every run of the read-side hook ends with exit code 0, whatever is
\* on standard input; it writes context to standard output only when it
\* ends found-fresh; on a clear or a startup event the store is not read.
C12_HookExitsZero ==
  ret.op = "hook"
    => /\ ret.result.exit_code = 0
       /\ ret.result.stdout # NoOutput => ret.result.state = "found_fresh"
       /\ (ret.stdin.form = "object" /\ ret.stdin.source \in {"clear", "startup"})
            => ~ret.result.searched

\* the lines of the given kind, in file order
LinesOfKind(j) == SelectSeq(transcript.lines, LAMBDA l : l.json = j)

C13_SamplesClean ==
  (ret.op = "extract" /\ ~ret.result.raised)
    => \A samples \in {ret.result.user_messages, ret.result.assistant_messages} :
         \A i \in 1..Len(samples) :
           /\ Len(samples[i]) <= MaxSampleLen
           /\ ~Contains(samples[i], Marker)

\* the greatest message timestamp of a transcript that has one
Timed(messages) ==
  {i \in 1..Len(messages) : messages[i].form = "dict" /\ timestamp_of(messages[i]) # NoTs}
MaxTimestamp(messages) == Max({timestamp_of(messages[i]) : i \in Timed(messages)})

NothingExtracted(result) ==
  /\ result.user_messages = <<>>
  /\ result.assistant_messages = <<>>
  /\ result.tool_calls = <<>>
  /\ result.message_count = 0
  /\ result.start_time = NoTs
  /\ result.end_time = NoTs

CutoffAtMax ==
  /\ ret.op = "extract"
  /\ kind = "memories"
  /\ Timed(ret.messages) # {}
  /\ ret.start_cutoff = MaxTimestamp(ret.messages)

BlockCalls(msg) ==
  IF msg.type = "assistant" /\ msg.content.form = "list"
  THEN {[name |-> msg.content.blocks[j].name, input |-> msg.content.blocks[j].input] :
          j \in {j \in 1..Len(msg.content.blocks) : msg.content.blocks[j].type = "tool_use"}}
  ELSE IF msg.type = "tool_use" THEN {[name |-> msg.name, input |-> msg.input]}
  ELSE {}
ToolCallsOf(messages) ==
  UNION {BlockCalls(messages[i]) : i \in {i \in 1..Len(messages) : messages[i].form = "dict"}}
EditedPaths(messages) ==
  {tool_file_path(c.input) : c \in {c \in ToolCallsOf(messages) : c.name \in EditTools}} \ {NoPath}

Under(path, dir) ==
  /\ path.drive = dir.drive
  /\ Len(dir.parts) <= Len(path.parts)
  /\ SubSeq(path.parts, 1, Len(dir.parts)) = dir.parts
RelativeTo(path, dir) ==
  [drive |-> "", abs |-> FALSE, parts |-> SubSeq(path.parts, Len(dir.parts) + 1, Len(path.parts))]

\* C20: a path edited by Edit, Write, MultiEdit or NotebookEdit that lies
\* under the session's working directory is recorded relative to it, once;
\* no other tool adds a path; a path that cannot be relativized (another
\* drive) is kept absolute.
C20_FilesRelative ==
  (ret.op = "extract" /\ ~ret.result.raised /\ ret.start_cutoff = NoTs)
    => /\ \A p \in EditedPaths(ret.messages) :
            /\ Under(p, ret.cwd) => /\ RelativeTo(p, ret.cwd) \in ret.result.files_modified
                                    /\ p \notin ret.result.files_modified
            /\ p.drive # ret.cwd.drive => p \in ret.result.files_modified
       /\ \A f \in ret.result.files_modified :
            \E p \in EditedPaths(ret.messages) : f \in {p, relpath(p, ret.cwd)}

\* C16: generate_summary never returns None and never raises; when the LLM
\* path yields nothing, what it returns is the structured text, which holds
\* a '## Keywords' section.
C16_SummaryNeverFails ==
  ret.op = "generate_summary" =>
    /\ ~ret.result.raised
    /\ ret.result.text # NoneText
    /\ generate_with_llm(ret.plugin, ret.env) \in {NoneText, <<>>} =>
         Contains(ret.result.text, <<"## Keywords">>)

\* C17: a run of save_memory.py on a transcript with at least one message
\* ends with a body that is not None and with artifact, metadata and index
\* entry of the session persisted.
C17_MemoryRunPersists ==
  ( /\ ret.op = "main"
    /\ kind = "memories"
    /\ ret.env.package
    /\ ret.stdin.form = "object"
    /\ ret.stdin.transcript_path
    /\ ret.messages # <<>> ) =>
    /\ ret.body # NoneText
    /\ ret.persisted
    /\ history # <<>>
    /\ history[Len(history)].session_id = ret.stdin.session_id
    /\ \E i \in 1..Len(index.entries) : index.entries[i].session_id = ret.stdin.session_id

\* the timestamps of the marker events of the transcript
MarkerTimestamps ==
  IF ~transcript.exists THEN {}
  ELSE {transcript.lines[i].value.timestamp :
          i \in {j \in 1..Len(transcript.lines) :
                   /\ has_marker_text(transcript.lines[j])
                   /\ transcript.lines[j].value.form = "dict"
                   /\ transcript.lines[j].value.timestamp # NoTs}}

\* what the metadata behind the latest link of the session gives
LatestMetadataTime(session_id) ==
  IF latest_exists(Store, session_id) /\ <<session_id, latest[session_id]>> \in DOMAIN meta
  THEN IF meta[<<session_id, latest[session_id]>>].event_end # NoTs
       THEN meta[<<session_id, latest[session_id]>>].event_end
       ELSE meta[<<session_id, latest[session_id]>>].timestamp
  ELSE NoTs

\* C18: get_last_compact_time gives the greatest timestamp of the marker
\* events of the transcript when there is one; otherwise event_end, or else
\* timestamp, of the metadata behind the session's latest link; None when
\* neither gives a value.
C18_LastCompactTime ==
  ret.op = "last_compact" =>
    ret.result = IF MarkerTimestamps # {} THEN Max(MarkerTimestamps)
                 ELSE LatestMetadataTime(ret.session_id)

\* p is text cut after some character
IsPrefix(p, text) == \E n \in 0..Len(text) : SubSeq(text, 1, n) = p

\* the entry, or the ended save, has a session id or a timestamp that begins with p
Matching(e, p) ==
  \/ IsPrefix(p, SessionText(e.session_id))
  \/ IsPrefix(p, TimestampText(e.timestamp))

\* C19: a lookup by identifier p gives the first entry of the index whose
\* session id or timestamp begins with p, which is the entry of the last
\* save that matches; it gives nothing when no entry matches.
C19_FirstMatch ==
  ret.op = "find" =>
    LET p == ret.identifier
        entries == index.summaries
        hits == {i \in 1..Len(entries) : Matching(entries[i], p)}
        saves == {i \in 1..Len(history) : Matching(history[i], p)}
    IN IF index.kind = "missing" \/ hits = {} THEN ret.result = NotFound
       ELSE /\ ret.result.status = "found"
            /\ ret.result.metadata = entries[Min0(hits)]
            /\ saves # {}
            /\ ret.result.metadata.session_id = history[Max(saves)].session_id
            /\ ret.result.metadata.timestamp = history[Max(saves)].timestamp
            /\ ret.result.metadata.created_at = history[Max(saves)].created_at

\* a user record with one plain text, or an assistant record
CountedRecord(m) ==
  /\ m.form = "dict"
  /\ \/ m.type = "assistant"
     \/ /\ m.type = "user"
        /\ m.content.form = "str"
        /\ strip(m.content.text)
        /\ ~Contains(m.content.text, Marker)

\* C21: message_count is the number of message records processed, an
\* assistant record that holds only tool_use blocks included.
C21_MessageCount ==
  ( /\ ret.op = "extract"
    /\ ret.start_cutoff = NoTs
    /\ ~ret.result.raised
    /\ \A i \in 1..Len(ret.messages) : CountedRecord(ret.messages[i]) ) =>
    ret.result.message_count = Len(ret.messages)

\* C22: no message that reports a failure is on standard output; each is
\* on standard error.
C22_ErrorsOnStderrOnly ==
  ret.op = "main" =>
    /\ \A e \in ret.stdout : e.level # "error"
    /\ \A e \in ret.stdout \union ret.stderr : e.level = "error" => e \in ret.stderr

HasEntry(h) ==
  \E i \in 1..Len(index.summaries) :
    /\ index.summaries[i].session_id = h.session_id
    /\ index.summaries[i].timestamp = h.timestamp

\* C24: after two saves of two sessions that may run at the same time, the
\* index holds every entry that was in it before and at least one of the
\* two new ones.
C24_AtMostOneLost ==
  ( /\ \A p \in Procs : inflight[p].pc = "idle"
    /\ Len(history) = 3
    /\ history[2].session_id # history[3].session_id ) =>
    /\ index.kind = "object"
    /\ HasEntry(history[1])
    /\ HasEntry(history[2]) \/ HasEntry(history[3])

\* C25: a lookup gives the same whether jq answers or is not there, for
\* every identifier and for the latest artifact of every session.
C25_JqEquivalence ==
  /\ ret.op = "find" =>
       IF kind = "summaries"
       THEN find_by_identifier(Store, ret.identifier, "answers")
              = find_by_identifier(Store, ret.identifier, "unavailable")
       ELSE find_memory_by_identifier(Store, ret.identifier, "answers")
              = find_memory_by_identifier(Store, ret.identifier, "unavailable")
  /\ \A s \in Sessions \union {NoSession} :
       load_latest(Store, kind, s, "answers") = load_latest(Store, kind, s, "unavailable")

\* the run met a failure of the remote exchange
ExchangeFailed(script, remote) ==
  \/ remote.fails_at # "none"
  \/ script \in ClientScripts /\ ~remote.server
  \/ \A i \in 1..Len(accepted(script)) : accepted(script)[i] \notin remote.listed

\* C26: a failure at any step of the remote exchange does not crash a
\* tool-proxy script: it prints one JSON object with success = false and
\* exits with code 1; the tool is called only after list-tools gave its
\* name; what was opened is closed.
C26_ProxyDegrades ==
  ret.op = "proxy" =>
    LET r == ret.result
        n == Len(r.calls)
    IN /\ ExchangeFailed(ret.script, ret.remote) =>
            ~r.crashed /\ r.printed = <<Failure>> /\ r.exit_code = 1
       /\ \A i \in 1..n :
            r.calls[i] \notin {"load", "open", "list_tools", "close"} =>
              /\ \E j \in 1..(i - 1) : r.calls[j] = "list_tools"
              /\ r.calls[i] \in ret.remote.listed
       /\ (\E i \in 1..n : r.calls[i] = "open") => r.calls[n] = "close"

\* C27: structured extraction is deterministic: another run of
\* generate_summary_structured on equal content and equal session
\* information, in a process with another hash seed, returns the same text.
C27_StructuredDeterministic ==
  ( /\ ret.op = "generate_summary"
    /\ generate_with_llm(ret.plugin, ret.env) \in {NoneText, <<>>} ) =>
    \A seed \in {0, 1} :
      generate_summary_structured(ret.plugin, ret.content, ret.session_info, seed)
        = ret.result.text

\* the artifact file at the path is there, whole
FullyWritten(path) ==
  /\ path \in DOMAIN files
  /\ \E b \in Bodies : files[path] = artifact_file(kind, path[1], path[2], b)

\* C28: no index entry dangles: in every state reached by saves, also by
\* saves cut short at any step, the path of every index entry names an
\* artifact file that is fully written.
C28_NoDanglingEntry ==
  index.kind = "object" =>
    \A i \in 1..Len(index.summaries) : FullyWritten(index.summaries[i].summary_path)

\* C28, second part: a save cut short before update_index leaves the index
\* as it was.
C28_AbortKeepsIndex ==
  [][\A p \in Procs : Abort(p) => index' = index]_vars

\* C29: a failed replacement of the latest link leaves the session's state
\* as it was: when the link creation of a save fails and the session had a
\* latest pointer, the pointer is still there afterwards and names the
\* directory it named before.
C29_FailedLinkKeepsPointer ==
  [][\A s \in Sessions :
       ( /\ Len(history') = Len(history) + 1
         /\ history'[Len(history')].session_id = s
         /\ ~history'[Len(history')].link_ok
         /\ latest[s] # NoLink )
       => latest'[s] = latest[s]]_vars

\* the user messages among the first n lines of the transcript
UserLines(n) ==
  {i \in 1..Min(n, Len(transcript.lines)) : transcript.lines[i].value.type = "user"}

\* line i is among the user messages that the run took up
ContributesTo(i, run) ==
  \E j \in 1..Len(run.content.user_messages) :
    run.content.user_messages[j] = transcript.lines[i].value.content.text

\* C30: over the runs of save_memory.py of one session on a growing
\* transcript, a message contributes to at most one persisted artifact,
\* and every message later than the event_end of the artifact before
\* contributes to the next one.
C30_CoveredOnce ==
  LET persisted == {r \in 1..Len(history) : history[r].status = "returned"}
  IN /\ \A i \in UserLines(Len(transcript.lines)) :
          Cardinality({r \in persisted : ContributesTo(i, history[r])}) <= 1
     /\ \A r \in persisted : \A q \in persisted :
          ( /\ q < r
            /\ \A m \in persisted : ~(q < m /\ m < r)
            /\ history[q].content.end_time # NoTs )
          => \A i \in UserLines(history[r].seen) :
               timestamp_of(transcript.lines[i].value) > history[q].content.end_time
                 => ContributesTo(i, history[r])

====
